---- MODULE Spec2Model ----
(***************************************************************************)
(* A model of TrayChat AI (src/tray_chat_ai.py, and its older variant      *)
(* src/llm_tray_manager.py): the container status prober and the action   *)
(* states it drives, the chat session and its prompt dispatch, and the    *)
(* removal of a model together with the persisted selection, the pull     *)
(* dialog and its process, the configuration actions and the settings     *)
(* they persist, the start and stop of the container, the Run on Startup  *)
(* entry, the clicks on the tray icon, the parsers of the model listing   *)
(* and the renderer of the chat bubbles.                                   *)
(*                                                                         *)
(* A Python string is a sequence of symbols.  A symbol is one character;  *)
(* a word no operation of the program looks inside (a model name, a word  *)
(* of a chat message, a fixed message of the source) is one symbol.       *)
(* White space, punctuation and the characters of the inspection output   *)
(* are always single characters.                                          *)
(***************************************************************************)
EXTENDS Integers, Sequences, FiniteSets, TLC

VARIABLES
    container,         \* the named container as the container runtime holds it
    installed,         \* the models the runner holds inside the container
    settings_file,     \* settings.json on disk
    docker_available,  \* self.docker_available
    actions,           \* enabled/visible flags of the menu actions, status text, icon
    timer_active,      \* self.timer is running
    last_inspect,      \* outcome of the inspection run by the latest update_status
    selected_ollama_model,  \* self.selected_ollama_model
    chat_open,         \* a chat dialog is executing (dialog.exec_())
    chat_history,      \* dialog.chat_history
    chat_display,      \* the bubbles of chat_display, in order
    sending,           \* prompts of the sends that are inside QApplication.processEvents()
    last_dispatch,     \* what the send that has just returned dispatched and got
    last_remove,       \* what remove_language_model_dialog did, until the next
                       \* configuration action
    pull_dialog,       \* the pull dialog: its inputs and its QProcess
    last_pull,         \* what the latest _start_pull_process did, and how its job ended
    docker_image_name,     \* self.docker_image_name
    docker_compose_path,   \* self.docker_compose_path
    check_timer_interval,  \* self.check_timer_interval
    timer_interval,        \* the interval of self.timer
    last_config,       \* what the latest configuration action wrote, and how
    interval_origin,   \* the interval __init__ loaded and the seconds set since
    last_container_op, \* what the latest start_container or stop_container did
    autostart_file,    \* os.path.exists(self.autostart_file)
    autostart_checked, \* self.autostart_action.isChecked()
    tray_message,      \* what the latest click on the tray icon did
    last_toggle,       \* what the latest toggle_autostart met and left behind
    last_parse,        \* the latest listing a caller parsed, and the models it got
    last_render        \* the latest text add_bubble rendered, and its segments

statusVars == <<docker_available, actions, timer_active, last_inspect>>
envVars == <<container, installed>>
settingsVars == <<settings_file, selected_ollama_model>>
chatVars == <<chat_open, chat_history, chat_display, sending, last_dispatch>>
pullVars == <<pull_dialog, last_pull>>
trayVars == <<autostart_file, autostart_checked, tray_message, last_toggle,
              last_parse, last_render>>
configVars == <<docker_image_name, docker_compose_path, check_timer_interval,
                timer_interval, last_config, interval_origin,
                last_container_op>>
vars == <<container, installed, settings_file, docker_available, actions, timer_active,
          last_inspect, selected_ollama_model, chat_open, chat_history, chat_display,
          sending, last_dispatch, last_remove, pull_dialog, last_pull,
          docker_image_name, docker_compose_path, check_timer_interval,
          timer_interval, last_config, interval_origin, last_container_op,
          autostart_file, autostart_checked, tray_message, last_toggle,
          last_parse, last_render>>

(***************************************************************************)
(* Python's str operations, as the program uses them.                      *)
(***************************************************************************)
Whitespace == {" ", "\n", "\t", "\r"}

UpperCase == <<"A","B","C","D","E","F","G","H","I","J","K","L","M",
               "N","O","P","Q","R","S","T","U","V","W","X","Y","Z">>
LowerCase == <<"a","b","c","d","e","f","g","h","i","j","k","l","m",
               "n","o","p","q","r","s","t","u","v","w","x","y","z">>

LowerChar(c) ==
    IF \E i \in 1..26 : UpperCase[i] = c
    THEN LowerCase[CHOOSE i \in 1..26 : UpperCase[i] = c]
    ELSE c

\* str.lower()
lower(s) == [i \in 1..Len(s) |-> LowerChar(s[i])]

\* sub in s
contains(s, sub) ==
    \E i \in 1..(Len(s) - Len(sub) + 1) : SubSeq(s, i, i + Len(sub) - 1) = sub

RECURSIVE lstrip(_)
lstrip(s) ==
    IF s # <<>> /\ Head(s) \in Whitespace THEN lstrip(Tail(s)) ELSE s

RECURSIVE rstrip(_)
rstrip(s) ==
    IF s # <<>> /\ s[Len(s)] \in Whitespace
    THEN rstrip(SubSeq(s, 1, Len(s) - 1))
    ELSE s

\* str.strip()
strip(s) == rstrip(lstrip(s))

\* str.split(sep) for a one-character separator: always at least one field
RECURSIVE split(_, _)
split(s, sep) ==
    IF \E i \in 1..Len(s) : s[i] = sep
    THEN LET i == CHOOSE k \in 1..Len(s) :
                      s[k] = sep /\ \A j \in 1..(k - 1) : s[j] # sep
         IN  <<SubSeq(s, 1, i - 1)>> \o split(SubSeq(s, i + 1, Len(s)), sep)
    ELSE <<s>>

\* str.splitlines(): the lines without their line ends, no empty last line
RECURSIVE splitlines(_)
splitlines(s) ==
    IF s = <<>> THEN <<>>
    ELSE IF \E i \in 1..Len(s) : s[i] = "\n"
    THEN LET i == CHOOSE k \in 1..Len(s) :
                      s[k] = "\n" /\ \A j \in 1..(k - 1) : s[j] # "\n"
         IN  <<SubSeq(s, 1, i - 1)>> \o splitlines(SubSeq(s, i + 1, Len(s)))
    ELSE <<s>>

\* str.split() without a separator: the words between runs of white space
RECURSIVE split_ws(_)
split_ws(s) ==
    LET t == lstrip(s)
    IN  IF t = <<>> THEN <<>>
        ELSE IF \E i \in 1..Len(t) : t[i] \in Whitespace
        THEN LET i == CHOOSE k \in 1..Len(t) :
                          t[k] \in Whitespace /\ \A j \in 1..(k - 1) : t[j] \notin Whitespace
             IN  <<SubSeq(t, 1, i - 1)>> \o split_ws(SubSeq(t, i + 1, Len(t)))
        ELSE <<t>>

(***************************************************************************)
(* ansi_escape = re.compile(r'\x1B(?:[@-Z\\-_]|\[[0-?]*[ -/]*[@-~])')      *)
(* "ESC" stands for the character \x1B.                                    *)
(***************************************************************************)
Range(f) == {f[i] : i \in DOMAIN f}
\* the three character classes, over the characters the model's strings use
AnsiFe == {"@", "]", "^", "_"} \cup Range(UpperCase)
AnsiParameter == {"0","1","2","3","4","5","6","7","8","9",":",";","<","=",">","?"}
AnsiIntermediate == {" ", "!", "#", "$", "%", "&", "(", ")", "*", "+", ",", "-", ".", "/"}
AnsiFinal == {"@", "[", "]", "^", "_", "{", "|", "}", "~"}
                 \cup Range(UpperCase) \cup Range(LowerCase)

\* the end of the longest run of symbols of class cls that starts at s[i]
RECURSIVE SkipClass(_, _, _)
SkipClass(s, i, cls) ==
    IF i <= Len(s) /\ s[i] \in cls THEN SkipClass(s, i + 1, cls) ELSE i

\* the length of the escape sequence at the head of s, 0 when there is none
AnsiMatch(s) ==
    IF Len(s) < 2 \/ s[1] # "ESC" THEN 0
    ELSE IF s[2] \in AnsiFe THEN 2
    ELSE IF s[2] = "["
    THEN LET j == SkipClass(s, SkipClass(s, 3, AnsiParameter), AnsiIntermediate)
         IN  IF j <= Len(s) /\ s[j] \in AnsiFinal THEN j ELSE 0
    ELSE 0

\* ansi_escape.sub('', s)
RECURSIVE ansi_sub(_)
ansi_sub(s) ==
    IF s = <<>> THEN <<>>
    ELSE IF AnsiMatch(s) > 0 THEN ansi_sub(SubSeq(s, AnsiMatch(s) + 1, Len(s)))
    ELSE <<Head(s)>> \o ansi_sub(Tail(s))

(***************************************************************************)
(* The container runtime: the named container and `docker inspect`.        *)
(***************************************************************************)
sTrue == <<"t","r","u","e">>
sFalse == <<"f","a","l","s","e">>
sNull == <<"n","u","l","l">>
sNvidia == <<"n","v","i","d","i","a">>
sRunc == <<"r","u","n","c">>
sGpu == <<"g","p","u">>
\* [{"Capabilities":[["gpu"]]}]
drGpu == <<"[","{","\"","C","a","p","a","b","i","l","i","t","i","e","s","\"",":",
           "[","[","\"","g","p","u","\"","]","]","}","]">>
\* [{"Driver":"GPU"}]
drGpuUpper == <<"[","{","\"","D","r","i","v","e","r","\"",":","\"","G","P","U","\"","}","]">>
\* [{"Driver":"tpu"}]
drOther == <<"[","{","\"","D","r","i","v","e","r","\"",":","\"","t","p","u","\"","}","]">>

Runtimes == {<<>>, sRunc, sNvidia}
DeviceRequests == {sNull, drGpu, drGpuUpper, drOther}

AbsentContainer == [state |-> "absent", runtime |-> <<>>, device_requests |-> sNull]

Containers ==
    {AbsentContainer} \cup
    [state : {"exited", "running"}, runtime : Runtimes, device_requests : DeviceRequests]

\* "{{.State.Running}}|{{.HostConfig.Runtime}}|{{json .HostConfig.DeviceRequests}}"
InspectFormat(c) ==
    (IF c.state = "running" THEN sTrue ELSE sFalse) \o <<"|">> \o c.runtime
        \o <<"|">> \o c.device_requests \o <<"\n">>

NoInspect == [exc |-> "not_run", returncode |-> 0, stdout |-> <<>>]

\* last_inspect after an update_status that met outcome o: n counts, modulo 2,
\* the inspection commands issued so far
inspected(prev, o) ==
    [exc |-> o.exc, returncode |-> o.returncode, stdout |-> o.stdout,
     n |-> IF o.exc = "not_run" THEN prev.n ELSE 1 - prev.n]

\* subprocess.run([... "docker", "inspect" ...], capture_output=True, text=True):
\* no check=True, so a non-zero exit code raises nothing.
docker_inspect(c) ==
    {[exc |-> e, returncode |-> 0, stdout |-> <<>>] :
        e \in {"FileNotFoundError", "PermissionError"}}
    \cup
    (IF c.state = "absent"
     THEN {[exc |-> "none", returncode |-> 1, stdout |-> o] : o \in {<<>>, <<"\n">>}}
     ELSE {[exc |-> "none", returncode |-> 0, stdout |-> InspectFormat(c)]})

\* the exception a completed or failed inspection leaves update_status with
InspectRaises(o) == o.exc

(***************************************************************************)
(* update_status                                                           *)
(***************************************************************************)
DefaultActions ==
    [start_enabled |-> TRUE, stop_enabled |-> TRUE, send_prompt_enabled |-> TRUE,
     pull_model_enabled |-> TRUE, choose_compose_enabled |-> TRUE,
     choose_container_enabled |-> TRUE, remove_model_enabled |-> TRUE,
     start_visible |-> TRUE, stop_visible |-> TRUE,
     status_text |-> "Checking status...", icon |-> "default"]

\* the device requests searched for "gpu" as they are, without .lower()
IsGpuCaseSensitive(runtime, device_requests) ==
    runtime = sNvidia
    \/ (device_requests # sNull /\ contains(device_requests, sGpu))

IsGpu(runtime, device_requests) ==
    runtime = sNvidia
    \/ (device_requests # sNull /\ contains(lower(device_requests), sGpu))

StatusRunning(a, gpu) ==
    LET b == IF gpu
             THEN [a EXCEPT !.icon = "gpu_running",
                            !.start_enabled = TRUE, !.stop_enabled = TRUE]
             ELSE [a EXCEPT !.icon = "cpu_running"]
    IN  [b EXCEPT !.status_text = IF gpu THEN "Ollama: Running (GPU)"
                                  ELSE "Ollama: Running (CPU)",
                  !.start_visible = FALSE, !.stop_visible = TRUE,
                  !.send_prompt_enabled = TRUE, !.pull_model_enabled = TRUE]

StatusStopped(a) ==
    [a EXCEPT !.icon = "not_running", !.status_text = "LLM Server: Stopped",
              !.start_visible = TRUE, !.stop_visible = FALSE,
              !.start_enabled = TRUE, !.stop_enabled = FALSE,
              !.send_prompt_enabled = FALSE, !.pull_model_enabled = FALSE]

StatusNotFound(a) ==
    [a EXCEPT !.status_text = "LLM Server: Not Found",
              !.start_visible = TRUE, !.stop_visible = FALSE,
              !.start_enabled = TRUE, !.stop_enabled = FALSE,
              !.pull_model_enabled = FALSE, !.send_prompt_enabled = FALSE,
              !.icon = "not_running"]

StatusAllOff(a, text) ==
    [a EXCEPT !.status_text = text,
              !.start_enabled = FALSE, !.stop_enabled = FALSE,
              !.send_prompt_enabled = FALSE, !.pull_model_enabled = FALSE,
              !.icon = "error"]

\* the body of the try block, for a completed inspection
StatusParsed(a, stdout) ==
    LET output == split(strip(stdout), "|")
        is_running == output[1] = sTrue
        runtime == IF Len(output) > 1 THEN output[2] ELSE <<>>
        device_requests == IF Len(output) > 2 THEN output[3] ELSE sNull
    IN  IF is_running
        THEN StatusRunning(a, IsGpu(runtime, device_requests))
        ELSE StatusStopped(a)

\* update_status: a are the action states before it, avail is
\* self.docker_available, o the outcome of the inspection (not run when ~avail)
update_status(a, avail, o) ==
    IF ~avail
    THEN [docker_available |-> FALSE,
          actions |-> [a EXCEPT !.status_text = "LLM Server: Docker Not Available",
                                !.start_enabled = FALSE, !.stop_enabled = FALSE,
                                !.send_prompt_enabled = FALSE,
                                !.pull_model_enabled = FALSE]]
    ELSE CASE InspectRaises(o) = "none" ->
                [docker_available |-> TRUE, actions |-> StatusParsed(a, o.stdout)]
           [] InspectRaises(o) = "FileNotFoundError" ->
                [docker_available |-> FALSE,
                 actions |-> StatusAllOff(a, "LLM Server: Docker Command Not Found")]
           [] InspectRaises(o) = "CalledProcessError" ->
                [docker_available |-> TRUE, actions |-> StatusNotFound(a)]
           [] InspectRaises(o) = "DockerException" ->
                [docker_available |-> FALSE,
                 actions |-> StatusAllOff(a, "LLM Server: Docker Daemon Down")]
           [] OTHER ->
                [docker_available |-> TRUE,
                 actions |-> StatusAllOff(a, "LLM Server: Error")]

\* update_status inspecting without the test of self.docker_available
InspectionsAlways(avail, c) == docker_inspect(c)

\* the inspections update_status can see: none when the runtime is marked unavailable
Inspections(avail, c) == IF avail THEN docker_inspect(c) ELSE {NoInspect}

(***************************************************************************)
(* The runner inside the container: its models and their listing.          *)
(***************************************************************************)
\* model names, in the order the runner lists them
ModelOrder == << <<"m1">>, <<"m2">> >>
Models == Range(ModelOrder)

ListHeader == <<"NAME", " ", " ", "ID", " ", "SIZE", "\n">>
ListRow(m) == m \o <<" ", " ", "id", " ", "4GB", "\n">>

RECURSIVE ListRows(_, _)
ListRows(inst, i) ==
    IF i > Len(ModelOrder) THEN <<>>
    ELSE (IF ModelOrder[i] \in inst THEN ListRow(ModelOrder[i]) ELSE <<>>)
             \o ListRows(inst, i + 1)

\* the output of `ollama list`
ollama_list(inst) == ListHeader \o ListRows(inst, 1)

\* client.containers.get(name): the container's status, or an exception
containers_get(c) ==
    {[exc |-> e, status |-> "none"] : e \in {"APIError", "ConnectionError"}}
    \cup
    (IF c.state = "absent"
     THEN {[exc |-> "NotFound", status |-> "none"]}
     ELSE {[exc |-> "none", status |-> c.state]})

\* container.exec_run("ollama list"): exit code and output, or an exception
exec_list(inst) ==
    {[exc |-> "none", exit_code |-> 0, output |-> ollama_list(inst)],
     [exc |-> "none", exit_code |-> 1, output |-> <<"Error: could not connect">>],
     [exc |-> "APIError", exit_code |-> 0, output |-> <<>>]}

NoExec == [exc |-> "not_run", exit_code |-> 0, output |-> <<>>]

\* list_ollama_models: the listing, or None
list_ollama_models(avail, get, ex) ==
    IF avail /\ get.exc = "none" /\ get.status = "running"
       /\ ex.exc = "none" /\ ex.exit_code = 0
    THEN [none |-> FALSE, output |-> ex.output]
    ELSE [none |-> TRUE, output |-> <<>>]

\* the calls list_ollama_models makes: no lookup when the runtime is marked
\* unavailable, no exec unless the lookup found the container running
ListLookups(avail, c) ==
    IF avail THEN containers_get(c) ELSE {[exc |-> "not_run", status |-> "none"]}

ListExecs(get, inst) ==
    IF get.exc = "none" /\ get.status = "running" THEN exec_list(inst) ELSE {NoExec}

RECURSIVE FirstWords(_)
FirstWords(lines) ==
    IF lines = <<>> THEN <<>>
    ELSE (IF strip(Head(lines)) # <<>> /\ split_ws(Head(lines))[1] # <<"NAME">>
          THEN <<split_ws(Head(lines))[1]>> ELSE <<>>)
             \o FirstWords(Tail(lines))

\* [line.split()[0] for line in out.splitlines()
\*      if line.strip() and line.split()[0] != "NAME"]
parse_models(output) == FirstWords(splitlines(output))

\* llm_tray_manager.py, choose_ollama_model:
\*     [line.split()[0] for line in models_output.splitlines() if line]
\* line.split()[0] raises IndexError on a line of white space only
RECURSIVE LegacyFirstWords(_)
LegacyFirstWords(lines) ==
    IF lines = <<>> THEN [raised |-> FALSE, models |-> <<>>]
    ELSE IF Head(lines) = <<>> THEN LegacyFirstWords(Tail(lines))
    ELSE IF split_ws(Head(lines)) = <<>> THEN [raised |-> TRUE, models |-> <<>>]
    ELSE LET rest == LegacyFirstWords(Tail(lines))
         IN  IF rest.raised THEN rest
             ELSE [raised |-> FALSE,
                   models |-> <<split_ws(Head(lines))[1]>> \o rest.models]

legacy_parse_models(output) == LegacyFirstWords(splitlines(output))

\* the callers that parse the listing: three handlers of tray_chat_ai.py and
\* choose_ollama_model of llm_tray_manager.py
ListingCallers ==
    {"remove_language_model_dialog", "chat_dialog", "choose_ollama_model",
     "llm_tray_manager.choose_ollama_model"}

\* the models a caller gets from a listing
caller_models(caller, output) ==
    IF caller = "llm_tray_manager.choose_ollama_model"
    THEN legacy_parse_models(output)
    ELSE [raised |-> FALSE, models |-> parse_models(output)]

(***************************************************************************)
(* settings.json.  A JSON value of key selected_ollama_model is absent,    *)
(* null, a string (s) or a list (l).                                       *)
(***************************************************************************)
JsonMissing == [kind |-> "missing", s |-> <<>>, l |-> <<>>]
JsonNull == [kind |-> "null", s |-> <<>>, l |-> <<>>]
JsonStr(x) == [kind |-> "str", s |-> x, l |-> <<>>]
JsonList(x) == [kind |-> "list", s |-> <<>>, l |-> x]

\* a JSON number, or its key absent
JsonInt(x) == [kind |-> "int", n |-> x]
JsonNoInt == [kind |-> "missing", n |-> 0]

EmptyDoc ==
    [selected_ollama_model |-> JsonMissing, chat_window_geometry |-> "missing",
     ollama_container_name |-> JsonMissing, docker_compose_path |-> JsonMissing,
     status_check_interval |-> JsonNoInt]

\* read_settings: {} when the file is missing, is no JSON, or cannot be read
read_settings(file, io_ok) ==
    IF io_ok /\ file.valid THEN file.doc ELSE EmptyDoc

\* save_settings: open(path, "w") truncates the file before json.dump writes it
SaveOutcomes == {"ok", "open_failed", "write_failed"}

\* the settings never written
save_settings_dropped(file, doc, outcome) == file

save_settings(file, doc, outcome) ==
    CASE outcome = "ok" -> [valid |-> TRUE, doc |-> doc]
      [] outcome = "open_failed" -> file
      [] OTHER -> [valid |-> FALSE, doc |-> EmptyDoc]

\* settings_json.get(key, default) for a string, a number, and with default None
sOllama == <<"ollama">>

json_get_str(v, default) == IF v.kind = "str" THEN v.s ELSE default

json_get_int(v, default) == IF v.kind = "int" THEN v.n ELSE default

json_get(v) == IF v.kind = "missing" THEN JsonNull ELSE v

\* self.check_timer_interval when the settings hold none, in milliseconds
DefaultInterval == 5000

\* QInputDialog.getInt(..., current_int_seconds, 1, 60, 1): the seconds it can return
MinSeconds == 1
MaxSeconds == 60

\* the load without the isinstance(raw_model, str) branch
normalize_selection_list_only(raw) ==
    CASE raw.kind = "null" -> <<>>
      [] raw.kind = "missing" -> <<>>
      [] OTHER -> raw.l

\* __init__, lines 75-82: selected_ollama_model is always a list
normalize_selection(raw) ==
    CASE raw.kind = "str" -> <<raw.s>>
      [] raw.kind = "null" -> <<>>
      [] raw.kind = "missing" -> <<>>
      [] OTHER -> raw.l

(***************************************************************************)
(* send_promt_to_ollama                                                    *)
(***************************************************************************)
outHello == <<"ESC", "[", "0", "m", "hello", "\n">>
errBoom == <<"ESC", "[", "3", "1", "m", "boom">>

\* subprocess.run(["docker", "exec", "-i", name, "ollama", "run", model],
\*                input=prompt, capture_output=True, text=True, check=True)
RunnerOutcomes ==
    {[exc |-> "none", stdout |-> outHello, stderr |-> <<>>],
     [exc |-> "none", stdout |-> <<>>, stderr |-> <<>>],
     [exc |-> "CalledProcessError", stdout |-> <<>>, stderr |-> errBoom],
     [exc |-> "FileNotFoundError", stdout |-> <<>>, stderr |-> <<>>]}

\* the label written whatever the number of models
ModelOutputAlwaysLabelled(n, model, output) ==
    <<"*", "*", "Model", ":", " ">> \o model \o <<"*", "*", "\n">>
        \o output \o <<"\n", "\n">>

\* one pass of the loop over models_to_run: f"**Model: {model}**\n{output}\n\n"
ModelOutput(n, model, output) ==
    IF n > 1
    THEN <<"*", "*", "Model", ":", " ">> \o model \o <<"*", "*", "\n">>
             \o output \o <<"\n", "\n">>
    ELSE output

\* the loop over models_to_run from its i-th model on: the exception that ended
\* it ("none" when it ran to its end), the output so far, the runner calls made
RECURSIVE run_models(_, _, _, _, _)
run_models(sel, runs, i, final_output, calls) ==
    IF i > Len(sel)
    THEN [exc |-> "none", final_output |-> final_output, calls |-> calls, stderr |-> <<>>]
    ELSE IF runs[i].exc # "none"
    THEN [exc |-> runs[i].exc, final_output |-> final_output,
          calls |-> Append(calls, sel[i]), stderr |-> runs[i].stderr]
    ELSE run_models(sel, runs, i + 1,
                    final_output \o ModelOutput(Len(sel), sel[i], ansi_sub(runs[i].stdout)),
                    Append(calls, sel[i]))

Reply(result, kind, lookups, calls) ==
    [result |-> result, kind |-> kind, lookups |-> lookups, runner_calls |-> calls]

\* the reply that keeps the outputs gathered before the failure
runner_reply_after_outputs(r) ==
    CASE r.exc = "none" -> Reply(r.final_output, "ok", 1, r.calls)
      [] r.exc = "FileNotFoundError" ->
           Reply(r.final_output \o <<"Error: Docker command not found.">>,
                 "CommandNotFound", 1, r.calls)
      [] OTHER ->
           Reply(r.final_output \o <<"Error: LLM server command failed:", " ">>
                     \o ansi_sub(r.stderr),
                 "CommandFailed", 1, r.calls)

\* what send_promt_to_ollama returns once the loop over the models ended:
\* final_output (line 657), or the error of the except clause that caught the
\* runner's exception (lines 662-665 and 674-678)
runner_reply(r) ==
    CASE r.exc = "none" -> Reply(r.final_output, "ok", 1, r.calls)
      [] r.exc = "FileNotFoundError" ->
           Reply(<<"Error: Docker command not found.">>,
                 "CommandNotFound", 1, r.calls)
      [] OTHER ->
           Reply(<<"Error: LLM server command failed:", " ">>
                     \o ansi_sub(r.stderr),
                 "CommandFailed", 1, r.calls)

\* the test of the selection left out
NoModelCheckMissing(sel) == FALSE

\* the selection is looked at only once the container was found running
NoModelCheck(sel) == sel = <<>>

\* send_promt_to_ollama: avail is self.docker_available, sel the selection,
\* get the outcome of the container lookup, runs the runner's outcome per model
send_promt_to_ollama(avail, sel, get, runs) ==
    IF ~avail
    THEN Reply(<<"Error: Docker is not available.">>, "RuntimeUnavailable", 0, <<>>)
    ELSE CASE get.exc = "NotFound" ->
                Reply(<<"Error: LLM server container not found.">>,
                      "ContainerNotFound", 1, <<>>)
           [] get.exc = "APIError" ->
                Reply(<<"Error: Docker API error:", " ", "e">>, "APIError", 1, <<>>)
           [] get.exc # "none" ->
                Reply(<<"Error: An unexpected error occurred:", " ", "e">>,
                      "Unexpected", 1, <<>>)
           [] get.status # "running" ->
                Reply(<<"Error: LLM server container is not running.">>,
                      "ContainerNotRunning", 1, <<>>)
           [] NoModelCheck(sel) ->
                Reply(<<"Error: No model selected. Please select a model.">>,
                      "NoModelSelected", 1, <<>>)
           [] OTHER -> runner_reply(run_models(sel, runs, 1, <<>>, <<>>))

\* the lookups and runner outcomes one dispatch can meet
DispatchLookups(avail, c) ==
    IF avail THEN containers_get(c) ELSE {[exc |-> "not_run", status |-> "none"]}

DispatchRuns(avail, sel, get) ==
    IF avail /\ get.exc = "none" /\ get.status = "running"
    THEN [1..Len(sel) -> RunnerOutcomes]
    ELSE {<<>>}

(***************************************************************************)
(* The chat session: send_prompt_and_show_result                           *)
(***************************************************************************)
ErrorPlaceholder == <<"Error: Failed to get response.">>

Turn(role, content) == [role |-> role, content |-> content]

\* for msg in dialog.chat_history: full_prompt += f"{msg['role']}: {msg['content']}\n"
RECURSIVE history_block(_)
history_block(h) ==
    IF h = <<>> THEN <<>>
    ELSE <<Head(h).role, ":", " ">> \o Head(h).content \o <<"\n">> \o history_block(Tail(h))

\* the new input not ended by a newline before the cue
full_prompt_unterminated(h, prompt) ==
    history_block(h) \o <<"User", ":", " ">> \o prompt \o <<"Assistant", ":">>

\* full_prompt += f"User: {prompt}\nAssistant:"
full_prompt(h, prompt) ==
    history_block(h) \o <<"User", ":", " ">> \o prompt \o <<"\n", "Assistant", ":">>

\* the history that takes the user turn and drops the reply
history_after_user_only(h, prompt, result) ==
    IF result # <<>> THEN h \o <<Turn("User", prompt)>> ELSE h

\* `if result:` the history after the reply
history_after(h, prompt, result) ==
    IF result # <<>>
    THEN h \o <<Turn("User", prompt), Turn("Assistant", strip(result))>>
    ELSE h

\* the bubble added for the reply
reply_bubble(result) ==
    IF result # <<>> THEN Turn("Assistant", result)
    ELSE Turn("Assistant", ErrorPlaceholder)

\* __init__, lines 206-221: the runtime was found unavailable
InitUnavailable(a) ==
    [a EXCEPT !.start_enabled = FALSE, !.stop_enabled = FALSE,
              !.choose_compose_enabled = FALSE, !.send_prompt_enabled = FALSE,
              !.choose_container_enabled = FALSE, !.pull_model_enabled = FALSE,
              !.status_text = "Ollama: Docker Not Available", !.icon = "error"]

(***************************************************************************)
(* Bounds of the model.                                                    *)
(***************************************************************************)
MaxSelected == 2   \* longest selection list found in settings.json at startup
MaxSends == 2      \* user bubbles one chat view holds before it is cleared
MaxPending == 1    \* sends nested inside one another's processEvents()
MaxConfigs == 2    \* configuration actions of the menu and the chat dialog followed

SeqsUpTo(S, n) == UNION {[1..k -> S] : k \in 0..n}

\* the sends that are under way at once where sends nest
MaxNested == 2

\* the prompts the user types
PromptInputs == {<<" ">>, <<" ", "hi">>, <<"how", " ", "are", " ", "you">>}

\* the containers the chat and the model dialogs are explored with
PlainContainers ==
    {AbsentContainer} \cup
    [state : {"exited", "running"}, runtime : {sRunc}, device_requests : {sNull}]

NoDispatch ==
    [done |-> FALSE, prompt |-> <<>>, history_before |-> <<>>, full_prompt |-> <<>>,
     selection |-> <<>>, available |-> FALSE, seen |-> "none", runs |-> <<>>,
     result |-> <<>>, kind |-> "none", lookups |-> 0, runner_calls |-> <<>>]

NoPullDialog ==
    [dialog |-> "none", pull_button |-> TRUE, model_input |-> TRUE,
     process |-> "NotRunning", job |-> <<>>, output |-> 0]

NoPull ==
    [started |-> FALSE, name |-> <<>>, state_before |-> "NotRunning",
     inputs_before |-> TRUE, state_after |-> "NotRunning", inputs_after |-> TRUE,
     reports |-> 0, ended |-> "none"]

\* a configuration action wrote key; n counts the configuration actions so
\* far, up to MaxConfigs; from_chat, checked and the two selections before are
\* those of an update of the selection from the chat dialog
ConfigRecord(key, saved) ==
    [done |-> TRUE, key |-> key, saved |-> saved,
     n |-> IF last_config.n < MaxConfigs THEN last_config.n + 1 ELSE last_config.n,
     from_chat |-> FALSE, file_path |-> <<>>,
     checked |-> <<>>, selected_before |-> <<>>, persisted_before |-> <<>>]

NoConfig ==
    [done |-> FALSE, key |-> "none", saved |-> "not_written", n |-> 0,
     from_chat |-> FALSE, file_path |-> <<>>,
     checked |-> <<>>, selected_before |-> <<>>, persisted_before |-> <<>>]

\* a configuration action that wrote nothing
ConfigUnwritten == [NoConfig EXCEPT !.n = last_config.n]

NoRender == [done |-> FALSE, role |-> "none", fenced |-> FALSE, prefix |-> <<>>,
             content |-> <<>>, suffix |-> <<>>, parts |-> <<>>]

NoParse == [done |-> FALSE, caller |-> "none", output |-> <<>>,
            raised |-> FALSE, models |-> <<>>]

NoToggle == [done |-> FALSE, outcome |-> "none", n |-> 0]

NoTrayMessage == [text |-> "none", n |-> 0]

NoContainerOp ==
    [done |-> FALSE, op |-> "none", available |-> FALSE, compose |-> FALSE,
     seen |-> "none", command |-> "none", command_ok |-> FALSE, message |-> "none",
     container_before |-> AbsentContainer, container_after |-> AbsentContainer,
     repeats |-> FALSE]

NoRemove ==
    [done |-> FALSE, item |-> <<>>, rm_ok |-> FALSE, selected_before |-> <<>>,
     file_before |-> [valid |-> FALSE, doc |-> EmptyDoc], saved |-> "not_written"]

(***************************************************************************)
(* __init__                                                                *)
(***************************************************************************)
InitialSelections ==
    {JsonMissing, JsonNull} \cup {JsonStr(m) : m \in Models}
        \cup {JsonList(l) : l \in SeqsUpTo(Models, MaxSelected)}

\* the intervals and compose files an earlier run has persisted
InitialIntervals == {JsonNoInt, JsonInt(MinSeconds * 1000), JsonInt(MaxSeconds * 1000)}

composeYml == <<"compose.yml">>

InitialComposePaths == {JsonMissing, JsonStr(composeYml)}

InitialFiles ==
    {[valid |-> FALSE, doc |-> EmptyDoc]} \cup
    {[valid |-> TRUE,
      doc |-> [EmptyDoc EXCEPT !.selected_ollama_model = r,
                               !.status_check_interval = i,
                               !.docker_compose_path = c]] :
        r \in InitialSelections, i \in InitialIntervals, c \in InitialComposePaths}

\* lines 70-86: load the settings, normalize the selection, write it back
InitSettings ==
    \E file \in InitialFiles, io_ok \in BOOLEAN, saved \in SaveOutcomes :
        LET settings_json == read_settings(file, io_ok)
            sel == normalize_selection(settings_json.selected_ollama_model)
        IN  /\ selected_ollama_model = sel
            /\ settings_file =
                   save_settings(file,
                       [settings_json EXCEPT !.selected_ollama_model = JsonList(sel)],
                       saved)
            /\ docker_image_name = json_get_str(settings_json.ollama_container_name, sOllama)
            /\ docker_compose_path = json_get(settings_json.docker_compose_path)
            /\ check_timer_interval =
                   json_get_int(settings_json.status_check_interval, DefaultInterval)
            /\ timer_interval = check_timer_interval
            /\ interval_origin = [loaded |-> settings_json.status_check_interval,
                                  set |-> 0]

\* lines 88-104 and 200-221: ping the runtime, start the timer, first update_status
InitStatus ==
    \E ping \in BOOLEAN :
       \E o \in Inspections(ping, container) :
          LET r == update_status(DefaultActions, ping, o)
          IN  /\ docker_available = r.docker_available
              /\ actions = IF r.docker_available THEN r.actions
                           ELSE InitUnavailable(r.actions)
              /\ timer_active = r.docker_available
              /\ last_inspect = inspected([n |-> 0], o)

InitChat ==
    /\ chat_open = FALSE
    /\ chat_history = <<>>
    /\ chat_display = <<>>
    /\ sending = <<>>
    /\ last_dispatch = NoDispatch
    /\ last_remove = NoRemove

\* no pull dialog yet, no configuration action or container operation yet
InitDialogs ==
    /\ pull_dialog = NoPullDialog
    /\ last_pull = NoPull
    /\ last_config = NoConfig
    /\ last_container_op = NoContainerOp
    /\ autostart_file \in BOOLEAN
    /\ autostart_checked = autostart_file
    /\ tray_message = NoTrayMessage
    /\ last_toggle = NoToggle
    /\ last_parse = NoParse
    /\ last_render = NoRender

Init ==
    /\ container \in Containers
    /\ installed \in SUBSET Models
    /\ InitSettings
    /\ InitStatus
    /\ InitChat
    /\ InitDialogs

\* the program is not registered to run on startup
NoAutostart == ~autostart_file

\* the settings file holds no interval and no compose file
DefaultSettings ==
    /\ settings_file.doc.status_check_interval = JsonNoInt
    /\ settings_file.doc.docker_compose_path = JsonMissing
    /\ check_timer_interval = DefaultInterval
    /\ docker_compose_path = JsonNull

(***************************************************************************)
(* The status timer and the world outside the program.                     *)
(***************************************************************************)
\* self.timer.timeout -> update_status
TimerTick ==
    /\ timer_active
    /\ \E o \in Inspections(docker_available, container) :
         LET r == update_status(actions, docker_available, o)
         IN  /\ docker_available' = r.docker_available
             /\ actions' = r.actions
             /\ last_inspect' = inspected(last_inspect, o)
    /\ UNCHANGED <<timer_active, container, installed, last_remove>>
    /\ UNCHANGED pullVars
    /\ UNCHANGED trayVars
    /\ UNCHANGED configVars
    /\ UNCHANGED settingsVars
    /\ UNCHANGED chatVars

\* the container is started, stopped, created or removed outside the program
ContainerChangesIn(S) ==
    /\ container' \in S \ {container}
    /\ UNCHANGED <<installed, last_remove>>
    /\ UNCHANGED pullVars
    /\ UNCHANGED trayVars
    /\ UNCHANGED configVars
    /\ UNCHANGED statusVars
    /\ UNCHANGED settingsVars
    /\ UNCHANGED chatVars

ContainerChanges == ContainerChangesIn(Containers)

PlainContainerChanges == ContainerChangesIn(PlainContainers)

\* a model is pulled or removed outside the program
ModelsChange ==
    /\ installed' \in (SUBSET Models) \ {installed}
    /\ UNCHANGED <<container, last_remove>>
    /\ UNCHANGED pullVars
    /\ UNCHANGED trayVars
    /\ UNCHANGED configVars
    /\ UNCHANGED statusVars
    /\ UNCHANGED settingsVars
    /\ UNCHANGED chatVars

(***************************************************************************)
(* The chat dialog.                                                        *)
(***************************************************************************)
\* what QInputDialog.getItem can return for a list of items
Items(models) == IF models = <<>> THEN {<<>>} ELSE Range(models)

\* choose_ollama_model: the selection and the settings file it leaves
choose_ollama_model(sel, file, lst, ok, item, io_ok, saved) ==
    IF lst.none \/ lst.output = <<>> \/ ~ok \/ item = <<>>
    THEN [selected |-> sel, file |-> file]
    ELSE [selected |-> <<item>>,
          file |-> save_settings(file,
                       [read_settings(file, io_ok)
                            EXCEPT !.selected_ollama_model = JsonStr(item)],
                       saved)]

\* chat_dialog, up to dialog.exec_(): the chat action is triggered from the menu
\* or by a click on the tray icon, both only while the action is enabled
chat_dialog ==
    /\ ~chat_open
    /\ actions.send_prompt_enabled
    /\ IF selected_ollama_model = <<>>
       THEN \E get \in ListLookups(docker_available, container) :
            \E ex \in ListExecs(get, installed) :
               LET lst == list_ollama_models(docker_available, get, ex)
               IN  \E ok \in BOOLEAN, item \in Items(parse_models(lst.output)),
                      io_ok \in BOOLEAN, saved \in SaveOutcomes :
                      LET r == choose_ollama_model(selected_ollama_model, settings_file,
                                                   lst, ok, item, io_ok, saved)
                      IN  /\ selected_ollama_model' = r.selected
                          /\ settings_file' = r.file
       ELSE UNCHANGED settingsVars
    /\ chat_open' = TRUE
    /\ chat_history' = <<>>
    /\ chat_display' = <<>>
    /\ sending' = <<>>
    /\ last_dispatch' = NoDispatch
    /\ UNCHANGED <<last_remove>>
    /\ UNCHANGED pullVars
    /\ UNCHANGED configVars
    /\ UNCHANGED envVars
    /\ UNCHANGED statusVars

\* the chat action triggered from the menu
OpenChat ==
    /\ chat_dialog
    /\ UNCHANGED trayVars

\* chat_dialog, after dialog.exec_() returned: the geometry is saved, the
\* transcript is dropped with the dialog
CloseChat ==
    /\ chat_open
    /\ sending = <<>>
    /\ \E io_ok \in BOOLEAN, saved \in SaveOutcomes :
         settings_file' =
             save_settings(settings_file,
                 [read_settings(settings_file, io_ok)
                      EXCEPT !.chat_window_geometry = "hex"],
                 saved)
    /\ chat_open' = FALSE
    /\ chat_history' = <<>>
    /\ chat_display' = <<>>
    /\ last_dispatch' = NoDispatch
    /\ UNCHANGED <<sending, selected_ollama_model, last_remove>>
    /\ UNCHANGED pullVars
    /\ UNCHANGED trayVars
    /\ UNCHANGED configVars
    /\ UNCHANGED envVars
    /\ UNCHANGED statusVars

\* clear_chat
ClearChat ==
    /\ chat_open
    /\ chat_display' = <<>>
    /\ chat_history' = <<>>
    /\ last_dispatch' = NoDispatch
    /\ UNCHANGED <<chat_open, sending, last_remove>>
    /\ UNCHANGED pullVars
    /\ UNCHANGED trayVars
    /\ UNCHANGED configVars
    /\ UNCHANGED envVars
    /\ UNCHANGED statusVars
    /\ UNCHANGED settingsVars

UserBubbles == Cardinality({i \in 1..Len(chat_display) : chat_display[i].role = "User"})

\* send_prompt_and_show_result, up to QApplication.processEvents(): an empty
\* prompt returns at once, any other is shown and the input is cleared
SendClickedUpTo(pending) ==
    /\ chat_open
    /\ Len(sending) < pending
    /\ UserBubbles < MaxSends
    /\ \E raw \in PromptInputs :
         LET prompt == strip(raw)
         IN  IF prompt = <<>>
             THEN UNCHANGED <<chat_display, sending, last_dispatch>>
             ELSE /\ chat_display' = Append(chat_display, Turn("User", prompt))
                  /\ sending' = Append(sending, prompt)
                  /\ last_dispatch' = NoDispatch
    /\ UNCHANGED <<chat_open, chat_history, last_remove>>
    /\ UNCHANGED pullVars
    /\ UNCHANGED trayVars
    /\ UNCHANGED configVars
    /\ UNCHANGED envVars
    /\ UNCHANGED statusVars
    /\ UNCHANGED settingsVars

\* a click on Send, or Return in the input, while no send is under way
SendClicked == SendClickedUpTo(MaxPending)

\* the same click, also delivered by the processEvents() of a send under way
NestedSendClicked == SendClickedUpTo(MaxNested)

\* what one call of send_promt_to_ollama was given, met and returned
DispatchRecord(prompt, h, get, runs, r) ==
    [done |-> TRUE, prompt |-> prompt, history_before |-> h,
     full_prompt |-> full_prompt(h, prompt),
     selection |-> selected_ollama_model, available |-> docker_available,
     seen |-> IF get.exc = "none" THEN get.status ELSE get.exc,
     runs |-> runs, result |-> r.result, kind |-> r.kind,
     lookups |-> r.lookups, runner_calls |-> r.runner_calls]

\* send_prompt_and_show_result, from the return of processEvents() on: the
\* innermost pending send builds its prompt, dispatches it and shows the reply
SendDispatch ==
    /\ sending # <<>>
    /\ LET prompt == sending[Len(sending)]
       IN  \E get \in DispatchLookups(docker_available, container) :
           \E runs \in DispatchRuns(docker_available, selected_ollama_model, get) :
              LET r == send_promt_to_ollama(docker_available, selected_ollama_model,
                                            get, runs)
              IN  /\ chat_display' = Append(chat_display, reply_bubble(r.result))
                  /\ chat_history' = history_after(chat_history, prompt, r.result)
                  /\ last_dispatch' = DispatchRecord(prompt, chat_history, get, runs, r)
    /\ sending' = SubSeq(sending, 1, Len(sending) - 1)
    /\ UNCHANGED <<chat_open, last_remove>>
    /\ UNCHANGED pullVars
    /\ UNCHANGED trayVars
    /\ UNCHANGED configVars
    /\ UNCHANGED envVars
    /\ UNCHANGED statusVars
    /\ UNCHANGED settingsVars

\* send_promt_to_ollama on its own, for a prompt of an empty transcript
Dispatch ==
    /\ \E raw \in PromptInputs :
       \E get \in DispatchLookups(docker_available, container) :
       \E runs \in DispatchRuns(docker_available, selected_ollama_model, get) :
          /\ strip(raw) # <<>>
          /\ last_dispatch' =
                DispatchRecord(strip(raw), <<>>, get, runs,
                    send_promt_to_ollama(docker_available, selected_ollama_model,
                                         get, runs))
    /\ UNCHANGED <<chat_open, chat_history, chat_display, sending, last_remove>>
    /\ UNCHANGED pullVars
    /\ UNCHANGED trayVars
    /\ UNCHANGED configVars
    /\ UNCHANGED envVars
    /\ UNCHANGED statusVars
    /\ UNCHANGED settingsVars

(***************************************************************************)
(* Removing a model.                                                       *)
(***************************************************************************)
\* list.remove(x): the first occurrence goes
RECURSIVE list_remove(_, _)
list_remove(l, x) ==
    IF l = <<>> THEN <<>>
    ELSE IF Head(l) = x THEN Tail(l)
    ELSE <<Head(l)>> \o list_remove(Tail(l), x)

\* container.exec_run(f"ollama rm {model_name}")
exec_rm(inst, m) ==
    {[exc |-> "none", exit_code |-> 1, output |-> <<"Error: could not remove">>],
     [exc |-> "APIError", exit_code |-> 0, output |-> <<>>]}
    \cup
    (IF m \in inst
     THEN {[exc |-> "none", exit_code |-> 0, output |-> <<"deleted">>]}
     ELSE {})

RemoveExecs(get, inst, m) ==
    IF get.exc = "none" /\ get.status = "running" THEN exec_rm(inst, m) ELSE {NoExec}

\* remove_language_model_from_ollama: whether the runner removed the model
remove_language_model_from_ollama(get, ex) ==
    get.exc = "none" /\ get.status = "running" /\ ex.exc = "none" /\ ex.exit_code = 0

\* lines 253-261: the selection after the removal was asked for
selection_after_remove(sel, item, rm_ok) ==
    IF sel # <<>> /\ \E i \in 1..Len(sel) : sel[i] = item
    THEN list_remove(sel, item)
    ELSE sel

\* remove_language_model_dialog.  The container may change while the two
\* dialogs (choose, confirm) wait for the user: S are the containers it can
\* have become.
RemoveModelDialogIn(S) ==
    \E get1 \in ListLookups(docker_available, container) :
    \E ex1 \in ListExecs(get1, installed) :
       LET lst == list_ollama_models(docker_available, get1, ex1)
           models == parse_models(lst.output)
       IN  /\ ~lst.none
           /\ models # <<>>
           /\ \E item \in Range(models), c2 \in S :
              \E get2 \in containers_get(c2) :
              \E ex2 \in RemoveExecs(get2, installed, item) :
              \E io_ok \in BOOLEAN, saved \in SaveOutcomes :
                 LET rm_ok == remove_language_model_from_ollama(get2, ex2)
                     sel == selection_after_remove(selected_ollama_model, item, rm_ok)
                     written == sel # selected_ollama_model
                                \/ \E i \in 1..Len(selected_ollama_model) :
                                      selected_ollama_model[i] = item
                 IN  /\ installed' = IF rm_ok THEN installed \ {item} ELSE installed
                     /\ selected_ollama_model' = sel
                     /\ settings_file' =
                           IF written
                           THEN save_settings(settings_file,
                                    [read_settings(settings_file, io_ok)
                                         EXCEPT !.selected_ollama_model = JsonList(sel)],
                                    saved)
                           ELSE settings_file
                     /\ container' = c2
                     /\ \E o \in Inspections(docker_available, c2) :
                          LET r == update_status(actions, docker_available, o)
                          IN  /\ docker_available' = r.docker_available
                              /\ actions' = r.actions
                              /\ last_inspect' = inspected(last_inspect, o)
                     /\ last_remove' =
                           [done |-> TRUE, item |-> item, rm_ok |-> rm_ok,
                            selected_before |-> selected_ollama_model,
                            file_before |-> settings_file,
                            saved |-> IF written THEN saved ELSE "not_written"]
                     /\ last_config' =
                           IF written THEN ConfigRecord("selected_ollama_model", saved)
                           ELSE ConfigUnwritten
                     /\ UNCHANGED timer_active
                     /\ UNCHANGED chatVars
                     /\ UNCHANGED pullVars
                     /\ UNCHANGED trayVars
                     /\ UNCHANGED <<docker_image_name, docker_compose_path,
                                    check_timer_interval, timer_interval,
                                    interval_origin, last_container_op>>

RemoveModelDialog == RemoveModelDialogIn(Containers)

PlainRemoveModelDialog == RemoveModelDialogIn(PlainContainers)

\* the removal as a configuration action: the container stays as it is while
\* the dialogs wait
ConfigRemoveModelDialog ==
    /\ last_config.n < MaxConfigs
    /\ RemoveModelDialogIn({container})

(***************************************************************************)
(* The pull dialog.  Its QProcess is NotRunning, Starting or Running;      *)
(* start() on a process that is not NotRunning only warns.  The process    *)
(* signals errorOccurred(FailedToStart) instead of started, finished when  *)
(* it exits, errorOccurred(Crashed) followed by finished when it crashes,  *)
(* and errorOccurred with a read, write or unknown error while it runs on. *)
(* The lambdas connected to the process keep a closed dialog alive, so a   *)
(* job outlives the closing of its dialog.  One dialog is followed at a    *)
(* time: the next is opened once the job of the previous has ended.        *)
(***************************************************************************)
MaxOutput == 2     \* lines of process output followed in output_text_edit
MaxReports == 2    \* notifications of one job that are counted

\* the model names typed into model_input
PullNames == {<<" ">>, <<" ", "m1">>, <<"m2">>}

\* output_text_edit.append
append_output(d) ==
    [d EXCEPT !.output = IF @ < MaxOutput THEN @ + 1 ELSE @]

\* the inputs of the dialog are both enabled
InputsEnabled(d) == d.pull_button /\ d.model_input

\* the error handler re-enabling the input field only
pull_process_error_input_only(d, error) ==
    append_output([d EXCEPT !.model_input = TRUE])

\* _pull_process_error, whatever the error
pull_process_error(d, error) ==
    append_output([d EXCEPT !.pull_button = TRUE, !.model_input = TRUE])

\* _pull_process_finished, up to the update_status of a zero exit code
pull_process_finished(d, exitCode) ==
    append_output([d EXCEPT !.pull_button = TRUE, !.model_input = TRUE])

\* QProcess.start: it raises, it only warns, or the process is being started
StartOutcomes(state) ==
    IF state = "NotRunning" THEN {"raised", "Starting"} ELSE {"ignored"}

\* _start_pull_process for the text of model_input and an outcome of start()
start_pull_process(d, text, outcome) ==
    LET model_name == strip(text)
        cleared == [d EXCEPT !.output = 1, !.pull_button = FALSE,
                             !.model_input = FALSE]
    IN  IF model_name = <<>> THEN append_output(d)
        ELSE CASE outcome = "raised" ->
                    append_output([cleared EXCEPT !.pull_button = TRUE,
                                                  !.model_input = TRUE])
               [] outcome = "Starting" ->
                    [cleared EXCEPT !.process = "Starting", !.job = model_name]
               [] OTHER -> cleared

\* open_pull_model_dialog: the dialog opens when the container is found running
OpenPullDialog ==
    /\ pull_dialog.dialog # "open"
    /\ pull_dialog.process = "NotRunning"
    /\ actions.pull_model_enabled
    /\ docker_available
    /\ \E get \in containers_get(container) :
          get.exc = "none" /\ get.status = "running"
    /\ pull_dialog' = [NoPullDialog EXCEPT !.dialog = "open"]
    /\ last_pull' = NoPull
    /\ UNCHANGED <<last_remove>>
    /\ UNCHANGED envVars
    /\ UNCHANGED statusVars
    /\ UNCHANGED settingsVars
    /\ UNCHANGED chatVars
    /\ UNCHANGED configVars
    /\ UNCHANGED trayVars

\* the dialog is closed: dialog_pull_model.exec_() returns
ClosePullDialog ==
    /\ pull_dialog.dialog = "open"
    /\ pull_dialog' = [pull_dialog EXCEPT !.dialog = "closed"]
    /\ UNCHANGED <<last_pull, last_remove>>
    /\ UNCHANGED envVars
    /\ UNCHANGED statusVars
    /\ UNCHANGED settingsVars
    /\ UNCHANGED chatVars
    /\ UNCHANGED configVars
    /\ UNCHANGED trayVars

\* pull_button.clicked -> _start_pull_process
StartPullProcess ==
    /\ pull_dialog.dialog = "open"
    /\ pull_dialog.pull_button
    /\ \E text \in PullNames, outcome \in StartOutcomes(pull_dialog.process) :
         LET d == start_pull_process(pull_dialog, text, outcome)
         IN  /\ pull_dialog' = d
             /\ last_pull' =
                   [started |-> strip(text) # <<>>, name |-> strip(text),
                    state_before |-> pull_dialog.process,
                    inputs_before |-> InputsEnabled(pull_dialog),
                    state_after |-> d.process,
                    inputs_after |-> InputsEnabled(d),
                    reports |-> IF strip(text) = <<>> THEN last_pull.reports
                                ELSE IF outcome = "raised" THEN 1 ELSE 0,
                    ended |-> IF strip(text) = <<>> THEN last_pull.ended
                              ELSE IF outcome = "raised" THEN "start_raised"
                              ELSE "none"]
    /\ UNCHANGED <<last_remove>>
    /\ UNCHANGED envVars
    /\ UNCHANGED statusVars
    /\ UNCHANGED settingsVars
    /\ UNCHANGED chatVars
    /\ UNCHANGED configVars
    /\ UNCHANGED trayVars

\* what every step of the process leaves alone
PullFrame ==
    /\ UNCHANGED <<last_remove, container>>
    /\ UNCHANGED settingsVars
    /\ UNCHANGED chatVars
    /\ UNCHANGED configVars
    /\ UNCHANGED trayVars

\* the process has started
ProcessStarted ==
    /\ pull_dialog.process = "Starting"
    /\ pull_dialog' = [pull_dialog EXCEPT !.process = "Running"]
    /\ UNCHANGED <<last_pull, installed>>
    /\ UNCHANGED statusVars
    /\ PullFrame

\* errorOccurred(FailedToStart) -> _pull_process_error
ProcessFailedToStart ==
    /\ pull_dialog.process = "Starting"
    /\ pull_dialog' =
          pull_process_error([pull_dialog EXCEPT !.process = "NotRunning"],
                             "FailedToStart")
    /\ last_pull' = [last_pull EXCEPT !.reports = @ + 1, !.ended = "failed_to_start"]
    /\ UNCHANGED installed
    /\ UNCHANGED statusVars
    /\ PullFrame

\* readyReadStandardOutput, readyReadStandardError -> _append_process_output
ProcessOutput ==
    /\ pull_dialog.process = "Running"
    /\ pull_dialog.output < MaxOutput
    /\ pull_dialog' = append_output(pull_dialog)
    /\ UNCHANGED <<last_pull, installed>>
    /\ UNCHANGED statusVars
    /\ PullFrame

\* errorOccurred(ReadError, WriteError or UnknownError) -> _pull_process_error:
\* the process runs on
ProcessError ==
    /\ pull_dialog.process = "Running"
    /\ last_pull.reports < MaxReports
    /\ \E error \in {"ReadError", "WriteError", "UnknownError"} :
          pull_dialog' = pull_process_error(pull_dialog, error)
    /\ last_pull' = [last_pull EXCEPT !.reports = @ + 1]
    /\ UNCHANGED installed
    /\ UNCHANGED statusVars
    /\ PullFrame

\* the statusVars after _pull_process_finished: update_status on a zero exit code
FinishedStatus(exitCode) ==
    IF exitCode = 0
    THEN \E o \in Inspections(docker_available, container) :
            LET r == update_status(actions, docker_available, o)
            IN  /\ docker_available' = r.docker_available
                /\ actions' = r.actions
                /\ last_inspect' = inspected(last_inspect, o)
                /\ UNCHANGED timer_active
    ELSE UNCHANGED statusVars

\* finished(exitCode, NormalExit) -> _pull_process_finished
ProcessFinished ==
    /\ pull_dialog.process = "Running"
    /\ \E exitCode \in {0, 1} :
         /\ pull_dialog' =
               pull_process_finished([pull_dialog EXCEPT !.process = "NotRunning"],
                                     exitCode)
         /\ last_pull' =
               [last_pull EXCEPT !.reports = @ + 1,
                                 !.ended = IF exitCode = 0 THEN "exit_zero"
                                           ELSE "exit_nonzero"]
         /\ installed' = IF exitCode = 0 THEN installed \cup {pull_dialog.job}
                         ELSE installed
         /\ FinishedStatus(exitCode)
    /\ PullFrame

\* the process crashes: errorOccurred(Crashed) -> _pull_process_error, then
\* finished(exitCode, CrashExit) -> _pull_process_finished, the exit code being
\* the number of the signal, or any value
ProcessCrashed ==
    /\ pull_dialog.process = "Running"
    /\ \E exitCode \in {0, 1} :
         /\ pull_dialog' =
               pull_process_finished(
                   pull_process_error([pull_dialog EXCEPT !.process = "NotRunning"],
                                      "Crashed"),
                   exitCode)
         /\ last_pull' = [last_pull EXCEPT !.reports = @ + 2, !.ended = "crashed"]
         /\ FinishedStatus(exitCode)
    /\ UNCHANGED installed
    /\ PullFrame

(***************************************************************************)
(* The configuration actions of the menu and of the chat dialog.  Each     *)
(* reads the settings, sets its key and writes the settings back.          *)
(***************************************************************************)
\* the seconds chosen in QInputDialog.getInt(..., 1, 60, 1)
SecondsChosen == {MinSeconds, MaxSeconds}

\* the interval kept as the seconds that were entered
interval_ms_unconverted(interval) == interval

\* interval*1000: convert to milliseconds
interval_ms(interval) == interval * 1000

\* the names of the running containers, the files picked in the file dialog
\* ("" when it is cancelled), the rows checked in model_combo_box
sOther == <<"other">>
ContainerNames == {sOllama, sOther}
FilePaths == {<<>>, composeYml}
CheckedRows == {<<>>, <<ModelOrder[1]>>, <<ModelOrder[2]>>, ModelOrder}

\* read_settings, settings[key] = value, save_settings
write_key(file, key, value, io_ok, saved) ==
    save_settings(file, [read_settings(file, io_ok) EXCEPT ![key] = value], saved)

\* the selection settings.json holds, as __init__ would load it
persisted_selection(file) ==
    normalize_selection(read_settings(file, TRUE).selected_ollama_model)

\* change_interval_timer_variable, the dialog accepted
ChangeIntervalTimerVariable ==
    /\ last_config.n < MaxConfigs
    /\ \E interval \in SecondsChosen, io_ok \in BOOLEAN, saved \in SaveOutcomes :
         /\ check_timer_interval' = interval_ms(interval)
         /\ timer_interval' = interval_ms(interval)
         /\ settings_file' =
               write_key(settings_file, "status_check_interval",
                         JsonInt(interval_ms(interval)), io_ok, saved)
         /\ last_config' = ConfigRecord("status_check_interval", saved)
         /\ interval_origin' = [interval_origin EXCEPT !.set = interval]
    /\ last_remove' = NoRemove
    /\ UNCHANGED <<selected_ollama_model, docker_image_name,
                   docker_compose_path, last_container_op>>
    /\ UNCHANGED envVars
    /\ UNCHANGED statusVars
    /\ UNCHANGED chatVars
    /\ UNCHANGED pullVars
    /\ UNCHANGED trayVars

\* choose_from_running_docker_images, a name chosen: the named container is
\* from now on the one that was listed as running under that name
ChooseFromRunningDockerImages ==
    /\ last_config.n < MaxConfigs
    /\ actions.choose_container_enabled
    /\ docker_available
    /\ \E item \in ContainerNames, c2 \in PlainContainers,
          io_ok \in BOOLEAN, saved \in SaveOutcomes :
         /\ c2.state = "running"
         /\ item = docker_image_name => c2 = container
         /\ docker_image_name' = item
         /\ container' = c2
         /\ settings_file' =
               write_key(settings_file, "ollama_container_name", JsonStr(item),
                         io_ok, saved)
         /\ last_config' = ConfigRecord("ollama_container_name", saved)
         /\ \E o \in Inspections(docker_available, c2) :
              LET r == update_status(actions, docker_available, o)
              IN  /\ docker_available' = r.docker_available
                  /\ actions' = r.actions
                  /\ last_inspect' = inspected(last_inspect, o)
    /\ last_remove' = NoRemove
    /\ UNCHANGED <<timer_active, installed, selected_ollama_model,
                   docker_compose_path, check_timer_interval, timer_interval, interval_origin, last_container_op>>
    /\ UNCHANGED chatVars
    /\ UNCHANGED pullVars
    /\ UNCHANGED trayVars

\* choose_docker_compose_file that keeps the path when the chooser is cancelled
choose_docker_compose_file_kept_on_cancel(path, file, file_path, io_ok, saved) ==
    IF file_path = <<>>
    THEN [path |-> path, file |-> file]
    ELSE [path |-> JsonStr(file_path),
          file |-> write_key(file, "docker_compose_path", JsonStr(file_path),
                             io_ok, saved)]

\* choose_docker_compose_file, lines 1038-1041: the path held in memory and the
\* settings file it leaves for the path the file chooser returned
choose_docker_compose_file(path, file, file_path, io_ok, saved) ==
    [path |-> JsonStr(file_path),
     file |-> write_key(file, "docker_compose_path", JsonStr(file_path),
                        io_ok, saved)]

\* choose_docker_compose_file
ChooseDockerComposeFile ==
    /\ last_config.n < MaxConfigs
    /\ actions.choose_compose_enabled
    /\ \E file_path \in FilePaths, io_ok \in BOOLEAN, saved \in SaveOutcomes :
         LET r == choose_docker_compose_file(docker_compose_path, settings_file,
                                             file_path, io_ok, saved)
         IN  /\ docker_compose_path' = r.path
             /\ settings_file' = r.file
             /\ last_config' = [ConfigRecord("docker_compose_path", saved)
                                   EXCEPT !.file_path = file_path]
    /\ last_remove' = NoRemove
    /\ UNCHANGED <<selected_ollama_model, docker_image_name,
                   check_timer_interval, timer_interval,
                   interval_origin, last_container_op>>
    /\ UNCHANGED envVars
    /\ UNCHANGED statusVars
    /\ UNCHANGED chatVars
    /\ UNCHANGED pullVars
    /\ UNCHANGED trayVars

\* choose_ollama_model as chat_dialog calls it: no model is selected yet
ChooseOllamaModel ==
    /\ last_config.n < MaxConfigs
    /\ actions.send_prompt_enabled
    /\ selected_ollama_model = <<>>
    /\ \E get \in ListLookups(docker_available, container) :
       \E ex \in ListExecs(get, installed) :
          LET lst == list_ollama_models(docker_available, get, ex)
          IN  \E ok \in BOOLEAN, item \in Items(parse_models(lst.output)),
                 io_ok \in BOOLEAN, saved \in SaveOutcomes :
                 LET r == choose_ollama_model(selected_ollama_model, settings_file,
                                              lst, ok, item, io_ok, saved)
                 IN  /\ selected_ollama_model' = r.selected
                     /\ settings_file' = r.file
                     /\ last_config' =
                           IF r.selected # <<>>
                           THEN ConfigRecord("selected_ollama_model", saved)
                           ELSE ConfigUnwritten
    /\ last_remove' = NoRemove
    /\ UNCHANGED <<docker_image_name, docker_compose_path,
                   check_timer_interval, timer_interval,
                   interval_origin, last_container_op>>
    /\ UNCHANGED envVars
    /\ UNCHANGED statusVars
    /\ UNCHANGED chatVars
    /\ UNCHANGED pullVars
    /\ UNCHANGED trayVars

\* the update that takes the checked rows as they are
update_selected_model_unguarded(sel, file, checked, io_ok, saved) ==
    [selected |-> checked,
     file |-> write_key(file, "selected_ollama_model", JsonList(checked),
                        io_ok, saved)]

\* _update_selected_model_from_chat_dialog for the rows that are checked
update_selected_model_from_chat_dialog(sel, file, checked, io_ok, saved) ==
    LET selected == IF checked # <<>> THEN checked ELSE sel
    IN  [selected |-> selected,
         file |-> write_key(file, "selected_ollama_model", JsonList(selected),
                            io_ok, saved)]

\* model_combo_box.model().itemChanged -> _update_selected_model_from_chat_dialog
UpdateSelectedModelFromChatDialog ==
    /\ last_config.n < MaxConfigs
    /\ \E checked \in CheckedRows, io_ok \in BOOLEAN, saved \in SaveOutcomes :
         LET r == update_selected_model_from_chat_dialog(
                      selected_ollama_model, settings_file, checked, io_ok, saved)
         IN  /\ selected_ollama_model' = r.selected
             /\ settings_file' = r.file
             /\ last_config' =
                   [ConfigRecord("selected_ollama_model", saved)
                        EXCEPT !.from_chat = TRUE, !.checked = checked,
                               !.selected_before = selected_ollama_model,
                               !.persisted_before =
                                   persisted_selection(settings_file)]
    /\ last_remove' = NoRemove
    /\ UNCHANGED <<docker_image_name, docker_compose_path,
                   check_timer_interval, timer_interval, interval_origin,
                   last_container_op>>
    /\ UNCHANGED envVars
    /\ UNCHANGED statusVars
    /\ UNCHANGED chatVars
    /\ UNCHANGED pullVars
    /\ UNCHANGED trayVars

(***************************************************************************)
(* start_container and stop_container, as the functions they are: the menu *)
(* offers them only while start_action or stop_action is enabled and       *)
(* visible.  usable says that docker_compose_path is set and exists; get   *)
(* is the outcome of containers.get, run that of the command; named says   *)
(* that the compose project holds the named container.                     *)
(***************************************************************************)
ComposeOutcomes == {"ok", "CalledProcessError", "FileNotFoundError", "Exception"}
DirectOutcomes == {"ok", "APIError", "Exception"}

\* self.docker_compose_path and os.path.exists(self.docker_compose_path)
ComposeUsable(path, exists) == path.kind = "str" /\ path.s # <<>> /\ exists

\* the title of the message an exception of the direct path ends with
ErrorTitle(exc) == IF exc = "APIError" THEN "Docker Error" ELSE "Error"

\* the container started by container.start() or docker compose up -d
Started(c) ==
    IF c.state = "absent"
    THEN [state |-> "running", runtime |-> sRunc, device_requests |-> sNull]
    ELSE [c EXCEPT !.state = "running"]

ContainerResult(c, seen, command, ok, message) ==
    [container |-> c, seen |-> seen, command |-> command, command_ok |-> ok,
     message |-> message]

\* the named container started whatever its status is
start_named_unconditional(c, get, run) ==
    IF get.exc # "none"
    THEN ContainerResult(c, get.exc, "none", FALSE, ErrorTitle(get.exc))
    ELSE IF run = "ok"
         THEN ContainerResult(Started(c), get.status, "start", TRUE,
                              "LLM Server Started")
         ELSE ContainerResult(c, get.status, "start", FALSE, ErrorTitle(run))

\* start_container without a usable compose file: start the named container
\* if it is not running
start_named(c, get, run) ==
    IF get.exc # "none"
    THEN ContainerResult(c, get.exc, "none", FALSE, ErrorTitle(get.exc))
    ELSE IF get.status # "running"
         THEN IF run = "ok"
              THEN ContainerResult(Started(c), get.status, "start", TRUE,
                                   "LLM Server Started")
              ELSE ContainerResult(c, get.status, "start", FALSE, ErrorTitle(run))
         ELSE ContainerResult(c, get.status, "none", FALSE,
                              "LLM Server Already Running")

\* start_container, up to its update_status
start_container(c, usable, get, run, named) ==
    IF usable
    THEN IF run = "ok"
         THEN ContainerResult(IF named THEN Started(c) ELSE c, "none", "compose_up",
                              TRUE, "LLM Server Started")
         ELSE ContainerResult(c, "none", "compose_up", FALSE, "Error")
    ELSE start_named(c, get, run)

\* stop_container, up to its update_status: docker compose down removes the
\* containers of the project
stop_container(c, usable, get, run, named) ==
    IF usable
    THEN IF run = "ok"
         THEN ContainerResult(IF named THEN AbsentContainer ELSE c, "none",
                              "compose_down", TRUE, "LLM Server Stopped")
         ELSE ContainerResult(c, "none", "compose_down", FALSE, "Error")
    ELSE IF get.exc # "none"
         THEN ContainerResult(c, get.exc, "none", FALSE, ErrorTitle(get.exc))
         ELSE IF get.status = "running"
              THEN IF run = "ok"
                   THEN ContainerResult([c EXCEPT !.state = "exited"], get.status,
                                        "stop", TRUE, "LLM Server Stopped")
                   ELSE ContainerResult(c, get.status, "stop", FALSE, ErrorTitle(run))
              ELSE ContainerResult(c, get.status, "none", FALSE,
                                   "LLM Server Not Running")

\* the operation repeats the one before it: the same operation, on the named
\* container, the container as that one left it, its lookup completed and its
\* command, if it issued one, done
Repeats(op) ==
    /\ last_container_op.done
    /\ last_container_op.op = op
    /\ last_container_op.available
    /\ ~last_container_op.compose
    /\ last_container_op.seen \in {"running", "exited"}
    /\ last_container_op.command = "none" \/ last_container_op.command_ok
    /\ container = last_container_op.container_after

\* what start_container and stop_container share: the early return, the
\* operation, the update_status that ends it
ContainerOp(op, usable, r) ==
    /\ IF docker_available
       THEN /\ container' = r.container
            /\ \E o \in Inspections(docker_available, r.container) :
                 LET u == update_status(actions, docker_available, o)
                 IN  /\ docker_available' = u.docker_available
                     /\ actions' = u.actions
                     /\ last_inspect' = inspected(last_inspect, o)
            /\ last_container_op' =
                  [done |-> TRUE, op |-> op, available |-> TRUE, compose |-> usable,
                   seen |-> r.seen, command |-> r.command,
                   command_ok |-> r.command_ok, message |-> r.message,
                   container_before |-> container, container_after |-> r.container,
                   repeats |-> ~usable /\ Repeats(op)]
       ELSE /\ UNCHANGED <<container, docker_available, actions, last_inspect>>
            /\ last_container_op' =
                  [done |-> TRUE, op |-> op, available |-> FALSE, compose |-> FALSE,
                   seen |-> "none", command |-> "none", command_ok |-> FALSE,
                   message |-> "Error", container_before |-> container,
                   container_after |-> container, repeats |-> FALSE]
    /\ UNCHANGED <<timer_active, installed, last_remove, docker_image_name,
                   docker_compose_path, check_timer_interval, timer_interval,
                   last_config, interval_origin>>
    /\ UNCHANGED settingsVars
    /\ UNCHANGED chatVars
    /\ UNCHANGED pullVars
    /\ UNCHANGED trayVars

\* the outcomes start_container and stop_container can meet
OpLookups(usable, c) ==
    IF usable THEN {[exc |-> "not_run", status |-> "none"]} ELSE containers_get(c)

OpOutcomes(usable) == IF usable THEN ComposeOutcomes ELSE DirectOutcomes

StartContainer ==
    \E exists \in BOOLEAN, named \in BOOLEAN :
       LET usable == ComposeUsable(docker_compose_path, exists)
       IN  \E get \in OpLookups(usable, container), run \in OpOutcomes(usable) :
              ContainerOp("start", usable,
                          start_container(container, usable, get, run, named))

StopContainer ==
    \E exists \in BOOLEAN, named \in BOOLEAN :
       LET usable == ComposeUsable(docker_compose_path, exists)
       IN  \E get \in OpLookups(usable, container), run \in OpOutcomes(usable) :
              ContainerOp("stop", usable,
                          stop_container(container, usable, get, run, named))

(***************************************************************************)
(* Run on Startup.  The checkable menu entry starts with the existence of  *)
(* the autostart file; a click flips the entry and then toggle_autostart   *)
(* writes or removes the file.                                             *)
(***************************************************************************)
\* what the file system can answer when the entry was just checked: the
\* directory cannot be made (only when the file is absent), open() fails,
\* open() truncates the file and write() fails, or the file is written
EnableOutcomes(file) ==
    {"written", "open_failed", "write_failed"}
        \cup (IF file THEN {} ELSE {"makedirs_failed"})

\* and when it was just unchecked: nothing to remove, removed, or os.remove
\* raises
DisableOutcomes(file) ==
    IF file THEN {"removed", "remove_failed"} ELSE {"absent"}

\* toggle_autostart, from the state of the entry after Qt flipped it
toggle_autostart(checked, file, out) ==
    IF checked
    THEN CASE out = "makedirs_failed" -> [checked |-> TRUE, file |-> file]
           [] out = "open_failed"     -> [checked |-> FALSE, file |-> file]
           [] out = "write_failed"    -> [checked |-> FALSE, file |-> TRUE]
           [] OTHER                   -> [checked |-> TRUE, file |-> TRUE]
    ELSE IF file /\ out = "removed"
         THEN [checked |-> FALSE, file |-> FALSE]
         ELSE [checked |-> FALSE, file |-> file]

\* a click on Run on Startup
ToggleAutostart ==
    LET checked == ~autostart_checked
    IN  \E out \in (IF checked THEN EnableOutcomes(autostart_file)
                               ELSE DisableOutcomes(autostart_file)) :
            LET r == toggle_autostart(checked, autostart_file, out)
            IN  /\ autostart_checked' = r.checked
                /\ autostart_file' = r.file
                /\ last_toggle' = [done |-> TRUE, outcome |-> out,
                                   n |-> 1 - last_toggle.n]
                /\ UNCHANGED <<tray_message, last_parse, last_render>>
                /\ UNCHANGED <<envVars, settingsVars, statusVars, chatVars,
                               last_remove, pullVars, configVars>>

(***************************************************************************)
(* A caller lists the models and parses the listing (`if models_output:`   *)
(* keeps a failed or empty listing from being parsed).                     *)
(***************************************************************************)
ParseListing ==
    /\ \E caller \in ListingCallers :
       \E get \in ListLookups(docker_available, container) :
       \E ex \in ListExecs(get, installed) :
          LET lst == list_ollama_models(docker_available, get, ex)
              r == caller_models(caller, lst.output)
          IN  /\ ~lst.none
              /\ lst.output # <<>>
              /\ last_parse' = [done |-> TRUE, caller |-> caller,
                                output |-> lst.output,
                                raised |-> r.raised, models |-> r.models]
    /\ UNCHANGED <<autostart_file, autostart_checked, tray_message, last_toggle,
                   last_render>>
    /\ UNCHANGED <<envVars, settingsVars, statusVars, chatVars,
                   last_remove, pullVars, configVars>>

(***************************************************************************)
(* add_bubble: the rich text of one bubble.  A text is a sequence of       *)
(* symbols: single characters ("*", "<", "\n", ...; "BT" stands for the    *)
(* backtick) and words; the markup add_bubble emits ("<br>", "<b>",        *)
(* "&lt;", ...) is one symbol each.                                        *)
(***************************************************************************)
Fence == <<"BT", "BT", "BT">>

startswith(s, p) == Len(s) >= Len(p) /\ SubSeq(s, 1, Len(p)) = p

endswith(s, p) == Len(s) >= Len(p) /\ SubSeq(s, Len(s) - Len(p) + 1, Len(s)) = p

\* where p occurs in s, at or after position from
Occurrences(s, p, from) ==
    {i \in from..(Len(s) - Len(p) + 1) : SubSeq(s, i, i + Len(p) - 1) = p}

Least(S) == CHOOSE i \in S : \A j \in S : i <= j

\* text.replace("\r\n", "\n")
RECURSIVE normalize_newlines(_)
normalize_newlines(s) ==
    IF s = <<>> THEN <<>>
    ELSE IF startswith(s, <<"\r", "\n">>)
    THEN <<"\n">> \o normalize_newlines(SubSeq(s, 3, Len(s)))
    ELSE <<Head(s)>> \o normalize_newlines(Tail(s))

\* re.split(r'(FENCE.*?FENCE)', text, flags=re.DOTALL): the texts between the
\* fenced blocks and, because of the group, the fenced blocks themselves; a
\* block starts at the leftmost fence that has a later fence and ends at the
\* nearest one
RECURSIVE split_fenced(_)
split_fenced(s) ==
    LET opens == {i \in Occurrences(s, Fence, 1) : Occurrences(s, Fence, i + 3) # {}}
    IN  IF opens = {} THEN <<s>>
        ELSE LET i == Least(opens)
                 j == Least(Occurrences(s, Fence, i + 3))
             IN  <<SubSeq(s, 1, i - 1), SubSeq(s, i, j + 2)>>
                     \o split_fenced(SubSeq(s, j + 3, Len(s)))

\* the words of [a-zA-Z0-9+\-#]+
TagWords == {"python", "x", "c++"}

\* how many leading symbols of s are in S
RECURSIVE Leading(_, _)
Leading(s, S) ==
    IF s # <<>> /\ Head(s) \in S THEN 1 + Leading(Tail(s), S) ELSE 0

\* the fenced content kept whole
strip_language_tag_kept(content) == content

\* match = re.match(r'^\s*([a-zA-Z0-9+\-#]+)\n', content);
\* content = content[match.end():] if it matches
strip_language_tag(content) ==
    LET i == Leading(content, Whitespace)
        j == Leading(SubSeq(content, i + 1, Len(content)), TagWords)
    IN  IF j >= 1 /\ i + j + 1 <= Len(content) /\ content[i + j + 1] = "\n"
        THEN SubSeq(content, i + j + 2, Len(content))
        ELSE content

\* html.escape(s, quote=False)
html_escape(s) ==
    [i \in 1..Len(s) |->
        CASE s[i] = "&" -> "&amp;"
          [] s[i] = "<" -> "&lt;"
          [] s[i] = ">" -> "&gt;"
          [] OTHER -> s[i]]

\* .replace("\n", "<br>")
newlines_to_br(s) == [i \in 1..Len(s) |-> IF s[i] = "\n" THEN "<br>" ELSE s[i]]

\* part.replace("\n\n", "[[PARAGRAPH]]").replace("\n", " ")
\*     .replace("[[PARAGRAPH]]", "\n\n")
RECURSIVE unwrap(_)
unwrap(s) ==
    IF s = <<>> THEN <<>>
    ELSE IF startswith(s, <<"\n", "\n">>)
    THEN <<"\n", "\n">> \o unwrap(SubSeq(s, 3, Len(s)))
    ELSE IF Head(s) = "\n" THEN <<" ">> \o unwrap(Tail(s))
    ELSE <<Head(s)>> \o unwrap(Tail(s))

\* re.sub(r'\*\*(.*?)\*\*', r'<b>\1</b>', s), s without line ends
Stars == <<"*", "*">>

RECURSIVE bold(_)
bold(s) ==
    LET opens == {i \in Occurrences(s, Stars, 1) : Occurrences(s, Stars, i + 2) # {}}
    IN  IF opens = {} THEN s
        ELSE LET i == Least(opens)
                 j == Least(Occurrences(s, Stars, i + 2))
             IN  SubSeq(s, 1, i - 1) \o <<"<b>">> \o SubSeq(s, i + 2, j - 1)
                     \o <<"</b>">> \o bold(SubSeq(s, j + 2, Len(s)))

\* one element of final_html_parts: the part it renders, whether it is the
\* <pre> table of a code block, and what stands inside
render_part(part, text, role) ==
    IF startswith(part, Fence) /\ endswith(part, Fence)
    THEN [src |-> part, pre |-> TRUE,
          html |-> html_escape(strip_language_tag(SubSeq(part, 4, Len(part) - 3)))]
    ELSE LET unwrapped == IF role = "Assistant" /\ Occurrences(text, Fence, 1) = {}
                          THEN unwrap(part) ELSE part
             escaped_part == newlines_to_br(html_escape(unwrapped))
         IN  [src |-> part, pre |-> FALSE,
              html |-> IF role = "Assistant" THEN bold(escaped_part)
                       ELSE escaped_part]

\* add_bubble(text, role), lines 537-562: final_html_parts
add_bubble(text, role) ==
    LET t == normalize_newlines(text)
        parts == split_fenced(t)
    IN  [k \in 1..Len(parts) |-> render_part(parts[k], t, role)]

\* the texts rendered here: a prefix, a code block or none, a suffix
BubblePrefixes ==
    {<<>>, <<"a">>, <<"a", "\n", "b">>, <<"<">>, <<"*", "*", "b", "*", "*">>,
     <<"a", "BT">>}
BubbleContents ==
    {<<>>, <<"python", "\n", "1", "<", "2", "\n">>,
     <<"python", "\r", "\n", "1", "<", "2">>, <<"1", "<", "2">>,
     <<"\n", "1", "<", "2">>, <<"python", " ", "1", "<", "2">>, <<"c++", "\n">>}
BubbleSuffixes == {<<>>, <<"z">>, <<"\n", "\n", "z", "\n", "&">>}

bubble_text(prefix, fenced, content, suffix) ==
    prefix \o (IF fenced THEN Fence \o content \o Fence ELSE content) \o suffix

\* a bubble is added for a user turn or an assistant turn
RenderBubble ==
    /\ \E role \in {"User", "Assistant"}, fenced \in BOOLEAN,
          prefix \in BubblePrefixes, content \in BubbleContents,
          suffix \in BubbleSuffixes :
          last_render' =
              [done |-> TRUE, role |-> role, fenced |-> fenced, prefix |-> prefix,
               content |-> content, suffix |-> suffix,
               parts |-> add_bubble(bubble_text(prefix, fenced, content, suffix),
                                    role)]
    /\ UNCHANGED <<autostart_file, autostart_checked, tray_message, last_toggle,
                   last_parse>>
    /\ UNCHANGED <<envVars, settingsVars, statusVars, chatVars,
                   last_remove, pullVars, configVars>>

(***************************************************************************)
(* A click on the tray icon: start_chat_from_tray_icon                     *)
(***************************************************************************)
\* QApplication.activeModalWidget(): the chat dialog and the pull dialog run
\* in exec_()
Modal == chat_open \/ pull_dialog.dialog = "open"

\* the click that does not look for a modal dialog
tray_click_unguarded(modal, enabled) ==
    IF enabled THEN "chat" ELSE "start_first"

\* what a click does: notify that a window is open, open the chat, or notify
\* that the server is to be started
tray_click(modal, enabled) ==
    IF modal THEN "already_open"
    ELSE IF enabled THEN "chat" ELSE "start_first"

\* self.tray.activated with reason Trigger
TrayIconClicked ==
    LET out == tray_click(Modal, actions.send_prompt_enabled)
    IN  /\ tray_message' = [text |-> out, n |-> 1 - tray_message.n]
        /\ UNCHANGED <<autostart_file, autostart_checked, last_toggle, last_parse,
                       last_render>>
        /\ IF out = "chat"
           THEN chat_dialog
           ELSE UNCHANGED <<envVars, settingsVars, statusVars, chatVars,
                            last_remove, pullVars, configVars>>

(***************************************************************************)
(* Specifications.  Spec is the whole program.  SpecStatus, SpecChat,      *)
(* SpecDispatch, SpecModels, SpecPull, SpecConfig, SpecSelect,             *)
(* SpecInterval, SpecContainer, SpecAutostart, SpecSession, SpecNested,    *)
(* SpecCompose, SpecTray, SpecListing and SpecRender each explore one part *)
(* of it in depth, with the rest at rest.                                  *)
(***************************************************************************)
Next ==
    \/ TimerTick
    \/ ContainerChanges
    \/ ModelsChange
    \/ OpenChat
    \/ CloseChat
    \/ ClearChat
    \/ SendClicked
    \/ SendDispatch
    \/ RemoveModelDialog
    \/ OpenPullDialog
    \/ ClosePullDialog
    \/ StartPullProcess
    \/ ProcessStarted
    \/ ProcessFailedToStart
    \/ ProcessOutput
    \/ ProcessError
    \/ ProcessFinished
    \/ ProcessCrashed
    \/ ChangeIntervalTimerVariable
    \/ ChooseFromRunningDockerImages
    \/ ChooseDockerComposeFile
    \/ UpdateSelectedModelFromChatDialog
    \/ StartContainer
    \/ StopContainer
    \/ ToggleAutostart
    \/ TrayIconClicked

Spec == Init /\ [][Next]_vars

\* the status prober
InitStatusOnly ==
    /\ Init
    /\ NoAutostart
    /\ installed = Models
    /\ selected_ollama_model = <<>>
    /\ settings_file = [valid |-> TRUE, doc |-> EmptyDoc]
    /\ DefaultSettings

NextStatus == TimerTick \/ ContainerChanges

SpecStatus == InitStatusOnly /\ [][NextStatus]_vars

\* the chat session
InitChatOnly ==
    /\ Init
    /\ NoAutostart
    /\ container \in PlainContainers
    /\ installed = Models
    /\ selected_ollama_model \in {SubSeq(ModelOrder, 1, k) : k \in 0..Len(ModelOrder)}
    /\ settings_file.valid
    /\ settings_file.doc.selected_ollama_model = JsonList(selected_ollama_model)
    /\ docker_available
    /\ last_inspect.exc = "none"
    /\ DefaultSettings

NextChat ==
    \/ PlainContainerChanges
    \/ OpenChat
    \/ CloseChat
    \/ ClearChat
    \/ SendClicked
    \/ SendDispatch

SpecChat == InitChatOnly /\ [][NextChat]_vars

\* prompt dispatch, over every state of the runtime, the container and the
\* selection
InitDispatchOnly ==
    /\ Init
    /\ NoAutostart
    /\ container \in PlainContainers
    /\ installed = Models
    /\ settings_file.valid
    /\ settings_file.doc.selected_ollama_model = JsonList(selected_ollama_model)
    /\ DefaultSettings

NextDispatch ==
    \/ TimerTick
    \/ PlainContainerChanges
    \/ Dispatch

SpecDispatch == InitDispatchOnly /\ [][NextDispatch]_vars

\* the pull dialog and its process
InitPullOnly ==
    /\ Init
    /\ NoAutostart
    /\ container \in PlainContainers
    /\ selected_ollama_model = <<>>
    /\ settings_file = [valid |-> TRUE, doc |-> EmptyDoc]
    /\ DefaultSettings
    /\ docker_available
    /\ last_inspect.exc = "none"

NextPull ==
    \/ PlainContainerChanges
    \/ OpenPullDialog
    \/ ClosePullDialog
    \/ StartPullProcess
    \/ ProcessStarted
    \/ ProcessFailedToStart
    \/ ProcessOutput
    \/ ProcessError
    \/ ProcessFinished
    \/ ProcessCrashed

SpecPull == InitPullOnly /\ [][NextPull]_vars

\* the configuration actions and the settings file
InitConfigOnly ==
    /\ Init
    /\ NoAutostart
    /\ container \in PlainContainers
    /\ container.state = "running"
    /\ installed = Models
    /\ docker_available
    /\ last_inspect.exc = "none"
    /\ DefaultSettings
    /\ settings_file.valid
    /\ settings_file.doc.selected_ollama_model = JsonList(selected_ollama_model)
    /\ Len(selected_ollama_model) <= 1

NextConfig ==
    \/ ChangeIntervalTimerVariable
    \/ ChooseFromRunningDockerImages
    \/ ChooseDockerComposeFile
    \/ ChooseOllamaModel
    \/ UpdateSelectedModelFromChatDialog
    \/ ConfigRemoveModelDialog

SpecConfig == InitConfigOnly /\ [][NextConfig]_vars

\* the selection of the chat dialog
InitSelectOnly ==
    /\ Init
    /\ NoAutostart
    /\ container \in PlainContainers
    /\ container.state = "running"
    /\ docker_available
    /\ last_inspect.exc = "none"
    /\ DefaultSettings

NextSelect ==
    \/ ChooseOllamaModel
    \/ UpdateSelectedModelFromChatDialog

SpecSelect == InitSelectOnly /\ [][NextSelect]_vars

\* the interval of the status timer
InitIntervalOnly ==
    /\ Init
    /\ NoAutostart
    /\ container \in PlainContainers
    /\ installed = Models
    /\ selected_ollama_model = <<>>
    /\ settings_file.doc.selected_ollama_model \in {JsonMissing, JsonList(<<>>)}
    /\ settings_file.doc.docker_compose_path = JsonMissing
    /\ docker_compose_path = JsonNull

NextInterval ==
    \/ TimerTick
    \/ PlainContainerChanges
    \/ ChangeIntervalTimerVariable

SpecInterval == InitIntervalOnly /\ [][NextInterval]_vars

\* starting and stopping the container
InitContainerOnly ==
    /\ Init
    /\ NoAutostart
    /\ container \in PlainContainers
    /\ installed = Models
    /\ selected_ollama_model = <<>>
    /\ settings_file.valid
    /\ settings_file.doc.selected_ollama_model = JsonList(<<>>)
    /\ settings_file.doc.status_check_interval = JsonNoInt

NextContainer ==
    \/ TimerTick
    \/ PlainContainerChanges
    \/ StartContainer
    \/ StopContainer

SpecContainer == InitContainerOnly /\ [][NextContainer]_vars

\* the Run on Startup entry, next to the status prober
InitAutostartOnly ==
    /\ Init
    /\ installed = Models
    /\ selected_ollama_model = <<>>
    /\ settings_file = [valid |-> TRUE, doc |-> EmptyDoc]
    /\ DefaultSettings

NextAutostart == TimerTick \/ PlainContainerChanges \/ ToggleAutostart

SpecAutostart == InitAutostartOnly /\ [][NextAutostart]_vars

\* one chat session with a model selected, sends nesting, the container up
InitSessionOnly ==
    /\ InitChatOnly
    /\ container.state = "running"
    /\ selected_ollama_model = <<ModelOrder[1]>>

NextSession ==
    \/ OpenChat
    \/ CloseChat
    \/ ClearChat
    \/ NestedSendClicked
    \/ SendDispatch

SpecSession == InitSessionOnly /\ [][NextSession]_vars

\* the same session, never cleared
NextNested ==
    \/ OpenChat
    \/ CloseChat
    \/ NestedSendClicked
    \/ SendDispatch

SpecNested == InitSessionOnly /\ [][NextNested]_vars

\* the compose file chosen, the container started and stopped
InitComposeOnly ==
    /\ InitContainerOnly
    /\ container.state # "absent"
    /\ docker_available
    /\ last_inspect.exc = "none"
    /\ docker_compose_path = JsonStr(composeYml)

NextCompose ==
    \/ ChooseDockerComposeFile
    \/ StartContainer
    \/ StopContainer

SpecCompose == InitComposeOnly /\ [][NextCompose]_vars

\* clicks on the tray icon, next to the dialogs and the status prober
InitTrayOnly ==
    /\ InitChatOnly
    /\ selected_ollama_model = <<ModelOrder[1]>>

NextTray ==
    \/ TimerTick
    \/ PlainContainerChanges
    \/ TrayIconClicked
    \/ CloseChat
    \/ OpenPullDialog
    \/ ClosePullDialog

SpecTray == InitTrayOnly /\ [][NextTray]_vars

\* the renderer of the bubbles
InitRenderOnly ==
    /\ InitStatusOnly
    /\ container \in PlainContainers
    /\ container.state = "running"
    /\ docker_available
    /\ last_inspect.exc = "none"

NextRender == RenderBubble

SpecRender == InitRenderOnly /\ [][NextRender]_vars

\* the listing and its parsers
InitListingOnly ==
    /\ Init
    /\ NoAutostart
    /\ container \in PlainContainers
    /\ docker_available
    /\ settings_file.valid
    /\ DefaultSettings

NextListing == ModelsChange \/ PlainContainerChanges \/ ParseListing

SpecListing == InitListingOnly /\ [][NextListing]_vars

\* the models and the persisted selection
InitModelsOnly ==
    /\ Init
    /\ NoAutostart
    /\ container \in PlainContainers
    /\ DefaultSettings

NextModels ==
    \/ PlainContainerChanges
    \/ ModelsChange
    \/ PlainRemoveModelDialog

SpecModels == InitModelsOnly /\ [][NextModels]_vars
(***************************************************************************)
(* The status the latest update_status classified, in the terms of the     *)
(* specification's ContainerStatus, read off the status text it set.       *)
(***************************************************************************)
Classified ==
    CASE actions.status_text = "Ollama: Running (GPU)" -> "RunningGPU"
      [] actions.status_text = "Ollama: Running (CPU)" -> "RunningCPU"
      [] actions.status_text = "LLM Server: Stopped" -> "Stopped"
      [] actions.status_text = "LLM Server: Not Found" -> "NotFound"
      [] actions.status_text \in {"LLM Server: Docker Not Available",
                                  "Ollama: Docker Not Available",
                                  "LLM Server: Docker Command Not Found",
                                  "LLM Server: Docker Daemon Down"} -> "Unavailable"
      [] actions.status_text = "LLM Server: Error" -> "Error"
      [] OTHER -> "None"

\* the inspection of the latest update_status ran to completion
InspectCompleted == last_inspect.exc = "none"

\* what `docker inspect` prints for the three fields
InspectLine(flag, runtime, device_requests) ==
    flag \o <<"|">> \o runtime \o <<"|">> \o device_requests \o <<"\n">>

(***************************************************************************)
(* C1.  After any update_status, start is enabled iff the status is        *)
(* Stopped or NotFound, and stop is enabled iff it is RunningCPU or        *)
(* RunningGPU.  The code leaves both flags as they were on a RunningCPU    *)
(* probe and enables start on a RunningGPU probe.                          *)
(***************************************************************************)
C1_StartStopFollowStatus ==
    /\ actions.start_enabled <=> Classified \in {"Stopped", "NotFound"}
    /\ actions.stop_enabled <=> Classified \in {"RunningCPU", "RunningGPU"}

(***************************************************************************)
(* C2.  The enabled flags of start, stop and chat are a function of the    *)
(* classified status alone, by the table of section 4.1.                   *)
(***************************************************************************)
C2_FlagTable(status) ==
    CASE status = "Stopped" -> <<TRUE, FALSE, FALSE>>
      [] status \in {"RunningCPU", "RunningGPU"} -> <<FALSE, TRUE, TRUE>>
      [] OTHER -> <<FALSE, FALSE, FALSE>>

C2_FlagsFunctionOfStatus ==
    <<actions.start_enabled, actions.stop_enabled, actions.send_prompt_enabled>>
        = C2_FlagTable(Classified)

(***************************************************************************)
(* C3.  A completed inspection printing running|runtime|device_requests    *)
(* is classified Stopped when the running flag is not "true", RunningGPU   *)
(* when it is and the runtime is "nvidia" or the device requests are not   *)
(* "null" and mention "gpu" in any case, and RunningCPU otherwise.         *)
(***************************************************************************)
C3_MentionGpu == {drGpu, drGpuUpper}

C3_Expected(flag, runtime, device_requests) ==
    IF flag # sTrue THEN "Stopped"
    ELSE IF runtime = sNvidia \/ device_requests \in C3_MentionGpu THEN "RunningGPU"
    ELSE "RunningCPU"

C3_Classification ==
    /\ \A flag \in {sTrue, sFalse}, rt \in Runtimes, dr \in DeviceRequests :
          (InspectCompleted /\ last_inspect.stdout = InspectLine(flag, rt, dr))
              => Classified = C3_Expected(flag, rt, dr)
    /\ (InspectCompleted /\ last_inspect.stdout = InspectLine(sTrue, sNvidia, sNull))
          => Classified = "RunningGPU"
    /\ (InspectCompleted /\ last_inspect.stdout = InspectLine(sTrue, <<>>, sNull))
          => Classified = "RunningCPU"
    /\ (InspectCompleted /\ last_inspect.stdout = InspectLine(sFalse, <<>>, sNull))
          => Classified = "Stopped"

\* an upper-case GPU device request on a running container was classified
C3_Witness ==
    /\ InspectCompleted
    /\ last_inspect.stdout = InspectLine(sTrue, sRunc, drGpuUpper)
    /\ Classified = "RunningGPU"

(***************************************************************************)
(* C4.  An inspection that exits non-zero is classified NotFound, an       *)
(* absent inspection command Unavailable, any other failure Error.  The    *)
(* code runs the inspection without check=True, so a non-zero exit raises  *)
(* nothing and its empty output is classified Stopped.                     *)
(***************************************************************************)
C4_FailureClassification ==
    /\ (InspectCompleted /\ last_inspect.returncode # 0) => Classified = "NotFound"
    /\ last_inspect.exc = "FileNotFoundError" => Classified = "Unavailable"
    /\ last_inspect.exc = "PermissionError" => Classified = "Error"

(***************************************************************************)
(* C5.  After a send whose dispatch ended in an error, the last bubble of  *)
(* the view is the literal error placeholder and the transcript history is *)
(* what it was before the send.  The code returns every error as a         *)
(* non-empty string, which `if result:` takes for a reply.                 *)
(***************************************************************************)
C5_FailedSendLeavesHistory ==
    (last_dispatch.done /\ last_dispatch.kind # "ok")
        => /\ chat_display # <<>>
           /\ chat_display[Len(chat_display)] = Turn("Assistant", ErrorPlaceholder)
           /\ chat_history = last_dispatch.history_before

(***************************************************************************)
(* C6.  The prompt a send dispatches is, for the transcript history        *)
(* t1..tn and the input p, the lines "<role>: <content>\n" of t1..tn in    *)
(* order followed by "User: <p>\nAssistant:"; for the history              *)
(* [(User,hi),(Assistant,hello)] and the input "how are you" it is         *)
(* "User: hi\nAssistant: hello\nUser: how are you\nAssistant:".            *)
(***************************************************************************)
C6_Line(t) == <<t.role, ":", " ">> \o t.content \o <<"\n">>

RECURSIVE C6_Lines(_, _)
C6_Lines(h, n) == IF n = 0 THEN <<>> ELSE C6_Lines(h, n - 1) \o C6_Line(h[n])

C6_HiHello == <<Turn("User", <<"hi">>), Turn("Assistant", <<"hello">>)>>

C6_HowAreYou == <<"how", " ", "are", " ", "you">>

C6_Example ==
    <<"User", ":", " ", "hi", "\n", "Assistant", ":", " ", "hello", "\n",
      "User", ":", " ", "how", " ", "are", " ", "you", "\n", "Assistant", ":">>

C6_SerializedPrompt ==
    last_dispatch.done =>
        /\ last_dispatch.full_prompt =
               C6_Lines(last_dispatch.history_before,
                        Len(last_dispatch.history_before))
                   \o <<"User", ":", " ">> \o last_dispatch.prompt
                   \o <<"\n", "Assistant", ":">>
        /\ (last_dispatch.history_before = C6_HiHello
               /\ last_dispatch.prompt = C6_HowAreYou)
              => last_dispatch.full_prompt = C6_Example

\* "how are you" was sent after the exchange hi / hello
C6_Witness ==
    /\ last_dispatch.done
    /\ last_dispatch.history_before = C6_HiHello
    /\ last_dispatch.prompt = C6_HowAreYou
    /\ last_dispatch.full_prompt = C6_Example

(***************************************************************************)
(* C7.  As claimed: a dispatch with an empty selection returns             *)
(* NoModelSelected without a container lookup or a runner invocation,      *)
(* whatever the state of the runtime and of the container.                 *)
(***************************************************************************)
C7_NoCommandAtAll ==
    (last_dispatch.done /\ last_dispatch.selection = <<>>)
        => /\ last_dispatch.kind = "NoModelSelected"
           /\ last_dispatch.lookups = 0
           /\ last_dispatch.runner_calls = <<>>

(***************************************************************************)
(* C7, amended.  A dispatch with an empty selection never invokes the      *)
(* runner.  It looks the container up once when the runtime is marked      *)
(* available and not at all otherwise, and it returns NoModelSelected      *)
(* exactly when that lookup found the container running; otherwise it      *)
(* returns the error of the runtime or of the container.                   *)
(***************************************************************************)
C7_KindSeen ==
    CASE ~last_dispatch.available -> "RuntimeUnavailable"
      [] last_dispatch.seen = "running" -> "NoModelSelected"
      [] last_dispatch.seen = "exited" -> "ContainerNotRunning"
      [] last_dispatch.seen = "NotFound" -> "ContainerNotFound"
      [] last_dispatch.seen = "APIError" -> "APIError"
      [] OTHER -> "Unexpected"

C7_NoRunnerWithoutModel ==
    (last_dispatch.done /\ last_dispatch.selection = <<>>)
        => /\ last_dispatch.runner_calls = <<>>
           /\ last_dispatch.lookups = (IF last_dispatch.available THEN 1 ELSE 0)
           /\ last_dispatch.kind = C7_KindSeen

\* a dispatch with an empty selection found the container running
C7_Witness ==
    /\ last_dispatch.done
    /\ last_dispatch.selection = <<>>
    /\ last_dispatch.available
    /\ last_dispatch.seen = "running"
    /\ last_dispatch.kind = "NoModelSelected"
    /\ last_dispatch.lookups = 1
    /\ last_dispatch.runner_calls = <<>>

(***************************************************************************)
(* C8.  As claimed: with N >= 1 selected models and a running container,   *)
(* a dispatch invokes the runner once per selected model in selection      *)
(* order and returns their outputs concatenated in that order, each under  *)
(* its model label iff N > 1.                                              *)
(***************************************************************************)
\* the runner's outputs with their escape sequences removed
C8_Clean(stdout) == IF stdout = outHello THEN <<"hello", "\n">> ELSE stdout

C8_Part(sel, runs, i) ==
    IF Len(sel) > 1
    THEN <<"*", "*", "Model", ":", " ">> \o sel[i] \o <<"*", "*", "\n">>
             \o C8_Clean(runs[i].stdout) \o <<"\n", "\n">>
    ELSE C8_Clean(runs[i].stdout)

RECURSIVE C8_Concat(_, _, _)
C8_Concat(sel, runs, n) ==
    IF n = 0 THEN <<>> ELSE C8_Concat(sel, runs, n - 1) \o C8_Part(sel, runs, n)

C8_RunningWithModels ==
    /\ last_dispatch.done
    /\ last_dispatch.available
    /\ last_dispatch.seen = "running"
    /\ Len(last_dispatch.selection) >= 1

C8_OncePerModel ==
    C8_RunningWithModels
        => /\ last_dispatch.runner_calls = last_dispatch.selection
           /\ last_dispatch.result =
                  C8_Concat(last_dispatch.selection, last_dispatch.runs,
                            Len(last_dispatch.selection))

(***************************************************************************)
(* C8, amended.  With N >= 1 selected models and a container the lookup    *)
(* found running, a dispatch invokes the runner for the selected models in *)
(* selection order, once each, up to and including the first invocation    *)
(* that fails.  When none fails it returns the outputs concatenated in     *)
(* that order, each under its model label iff N > 1; when one fails it     *)
(* returns that failure's error and none of the outputs.                   *)
(***************************************************************************)
C8_Failing ==
    {i \in 1..Len(last_dispatch.runs) : last_dispatch.runs[i].exc # "none"}

C8_FirstFailing == CHOOSE i \in C8_Failing : \A j \in C8_Failing : i <= j

C8_OncePerModelUntilFailure ==
    C8_RunningWithModels
        => IF C8_Failing = {}
           THEN /\ last_dispatch.runner_calls = last_dispatch.selection
                /\ last_dispatch.kind = "ok"
                /\ last_dispatch.result =
                       C8_Concat(last_dispatch.selection, last_dispatch.runs,
                                 Len(last_dispatch.selection))
           ELSE /\ last_dispatch.runner_calls =
                       SubSeq(last_dispatch.selection, 1, C8_FirstFailing)
                /\ last_dispatch.kind =
                       (IF last_dispatch.runs[C8_FirstFailing].exc = "FileNotFoundError"
                        THEN "CommandNotFound" ELSE "CommandFailed")
                /\ last_dispatch.result =
                       (IF last_dispatch.runs[C8_FirstFailing].exc = "FileNotFoundError"
                        THEN <<"Error: Docker command not found.">>
                        ELSE <<"Error: LLM server command failed:", " ", "boom">>)

\* two models answered one dispatch, each under its label
C8_Witness ==
    /\ C8_RunningWithModels
    /\ last_dispatch.selection = ModelOrder
    /\ last_dispatch.runner_calls = ModelOrder
    /\ last_dispatch.kind = "ok"
    /\ last_dispatch.result =
           <<"*", "*", "Model", ":", " ", "m1", "*", "*", "\n", "hello", "\n", "\n", "\n",
             "*", "*", "Model", ":", " ", "m2", "*", "*", "\n", "hello", "\n", "\n", "\n">>

(***************************************************************************)
(* C9.  When the runner did not remove the model (non-zero exit, container *)
(* not found or not running, exception), the remove action leaves the      *)
(* selection and the settings file as they were.  The code takes the model *)
(* out of the selection and writes the settings whatever                   *)
(* remove_language_model_from_ollama did.                                  *)
(***************************************************************************)
C9_SelectionKeptOnFailure ==
    (last_remove.done /\ ~last_remove.rm_ok)
        => /\ selected_ollama_model = last_remove.selected_before
           /\ settings_file = last_remove.file_before

(***************************************************************************)
(* C10.  After the removal of a selected model m (the runner removed it    *)
(* and the settings were written), the persisted selection is the earlier  *)
(* selection without any m, the other models in their order, also when m   *)
(* occurred more than once.  list.remove takes out the first m only.       *)
(***************************************************************************)
C10_Without(l, m) == SelectSeq(l, LAMBDA x : x # m)

C10_RemovedEverywhere ==
    (/\ last_remove.done
     /\ last_remove.rm_ok
     /\ last_remove.saved = "ok"
     /\ \E i \in 1..Len(last_remove.selected_before) :
           last_remove.selected_before[i] = last_remove.item)
        => /\ settings_file.valid
           /\ settings_file.doc.selected_ollama_model =
                  JsonList(C10_Without(last_remove.selected_before, last_remove.item))

(***************************************************************************)
(* C11.  While the process of the pull dialog is starting or running, the  *)
(* pull button and the model-name input are disabled.  The error handler   *)
(* enables both for every error, also for one the process survives.        *)
(***************************************************************************)
C11_InputsDisabledWhileRunning ==
    pull_dialog.process \in {"Starting", "Running"}
        => ~pull_dialog.pull_button /\ ~pull_dialog.model_input

(***************************************************************************)
(* C12.  A pull job that has ended (exit code 0, another exit code, failed *)
(* to start, crashed, start() raised) has shown exactly one notification.  *)
(* A crash runs the error handler and then the finished handler, and each  *)
(* of them shows one.                                                      *)
(***************************************************************************)
C12_ReportedOnce ==
    last_pull.ended # "none" => last_pull.reports = 1

(***************************************************************************)
(* C13.  Once the pull job has ended, whatever its outcome, the pull       *)
(* button and the model-name input are enabled again: they are never left  *)
(* disabled while the process is not running.                              *)
(***************************************************************************)
C13_InputsReenabled ==
    pull_dialog.process = "NotRunning" => InputsEnabled(pull_dialog)

C13_Witness ==
    /\ last_pull.started
    /\ ~last_pull.inputs_after
    /\ last_pull.ended # "none"
    /\ last_pull.ended # "start_raised"
    /\ pull_dialog.process = "NotRunning"
    /\ InputsEnabled(pull_dialog)

C15_Step ==
    /\ ~docker_available
          => /\ ~docker_available'
             /\ last_inspect'.n = last_inspect.n
    /\ docker_available
          => /\ timer_active
             /\ (container' = container => last_inspect'.n # last_inspect.n)

C15_PollingHalts == [][C15_Step]_vars

\* a tick after a probe that did not find the docker command
C15_Witness ==
    /\ ~docker_available
    /\ timer_active
    /\ last_inspect.exc = "not_run"
    /\ actions.status_text = "LLM Server: Docker Not Available"

(***************************************************************************)
(* C16.  Whenever the runtime is marked unavailable after the polling      *)
(* found it unreachable, the actions that need the runtime are disabled:   *)
(* start, stop, chat, pull model, remove model and choose running          *)
(* container.  update_status disables the first four only.                 *)
(***************************************************************************)
C16_RuntimeActionsDisabled ==
    (~docker_available /\ timer_active)
        => /\ ~actions.start_enabled
           /\ ~actions.stop_enabled
           /\ ~actions.send_prompt_enabled
           /\ ~actions.pull_model_enabled
           /\ ~actions.remove_model_enabled
           /\ ~actions.choose_container_enabled

C19_Agree(key) ==
    /\ settings_file.valid
    /\ CASE key = "status_check_interval" ->
              settings_file.doc.status_check_interval = JsonInt(check_timer_interval)
         [] key = "ollama_container_name" ->
              settings_file.doc.ollama_container_name = JsonStr(docker_image_name)
         [] key = "docker_compose_path" ->
              settings_file.doc.docker_compose_path = docker_compose_path
         [] key = "selected_ollama_model" ->
              /\ settings_file.doc.selected_ollama_model.kind \in {"str", "list"}
              /\ persisted_selection(settings_file) = selected_ollama_model
         [] OTHER -> FALSE

C18_Idempotent ==
    (last_container_op.done /\ last_container_op.available
        /\ ~last_container_op.compose)
        => /\ (last_container_op.op = "start" /\ last_container_op.seen = "running")
                 => /\ last_container_op.command = "none"
                    /\ last_container_op.message = "LLM Server Already Running"
                    /\ last_container_op.container_after
                           = last_container_op.container_before
           /\ (last_container_op.op = "stop" /\ last_container_op.seen = "exited")
                 => /\ last_container_op.command = "none"
                    /\ last_container_op.message = "LLM Server Not Running"
                    /\ last_container_op.container_after
                           = last_container_op.container_before
           /\ last_container_op.repeats
                 => /\ last_container_op.command = "none"
                    /\ last_container_op.container_after
                           = last_container_op.container_before

\* a start that repeats a start and finds the container running
C18_Witness ==
    /\ last_container_op.done
    /\ last_container_op.op = "start"
    /\ last_container_op.repeats
    /\ last_container_op.seen = "running"
    /\ last_container_op.message = "LLM Server Already Running"
    /\ container.state = "running"

(***************************************************************************)
(* C21: after startup and after every toggle_autostart, the checked state  *)
(* of Run on Startup equals the existence of the autostart file, failed    *)
(* writes and failed removals included.                                    *)
(***************************************************************************)
C21_ToggleMatchesFile == autostart_checked = autostart_file

InstalledInOrder(inst) == SelectSeq(ModelOrder, LAMBDA m : m \in inst)

C23_HeaderNeverOffered ==
    last_parse.done =>
        /\ ~last_parse.raised
        /\ <<"NAME">> \notin Range(last_parse.models)
        /\ \E inst \in SUBSET Models :
              /\ last_parse.output = ollama_list(inst)
              /\ last_parse.models = InstalledInOrder(inst)

(***************************************************************************)
(* C24.  A text made of a prefix, a fenced code block and a suffix (none   *)
(* of the three holding a backtick) is rendered as three segments in that  *)
(* order: the prefix and the suffix are not preformatted, the block is,    *)
(* and when the fenced content starts with a line that is a language tag,  *)
(* the preformatted segment holds the content after that line.             *)
(***************************************************************************)
NoBacktick(s) == \A i \in 1..Len(s) : s[i] # "BT"

HasTagLine(c) == Len(c) >= 2 /\ c[1] \in TagWords /\ c[2] = "\n"

C24_Form ==
    /\ last_render.done
    /\ last_render.fenced
    /\ NoBacktick(last_render.prefix)
    /\ NoBacktick(last_render.content)
    /\ NoBacktick(last_render.suffix)

C24_ThreeSegments ==
    C24_Form =>
        LET parts == last_render.parts
            c == normalize_newlines(last_render.content)
        IN  /\ Len(parts) = 3
            /\ parts[1].src = normalize_newlines(last_render.prefix)
            /\ parts[2].src = Fence \o c \o Fence
            /\ parts[3].src = normalize_newlines(last_render.suffix)
            /\ ~parts[1].pre
            /\ parts[2].pre
            /\ ~parts[3].pre
            /\ HasTagLine(c) => parts[2].html = html_escape(SubSeq(c, 3, Len(c)))

\* an assistant's text with a python block: the tag line is gone, the code is
\* escaped, the prefix keeps its line end as a break
C24_Witness ==
    /\ C24_Form
    /\ last_render.role = "Assistant"
    /\ last_render.prefix = <<"a", "\n", "b">>
    /\ last_render.content = <<"python", "\r", "\n", "1", "<", "2">>
    /\ last_render.suffix = <<"z">>
    /\ last_render.parts[1].html = <<"a", "<br>", "b">>
    /\ last_render.parts[2].html = <<"1", "&lt;", "2">>
    /\ last_render.parts[3].html = <<"z">>

(***************************************************************************)
(* C25.  While a chat dialog is open its history has even length and       *)
(* alternates User, Assistant from a User turn on.  A click on Send leaves *)
(* the history alone, the end of a send appends the user turn and then the *)
(* assistant turn or nothing, a step that empties the view empties the     *)
(* history too, and a send dispatched from an empty history serializes     *)
(* nothing but its own input.                                              *)
(***************************************************************************)
C25_Alternates ==
    chat_open =>
        /\ Len(chat_history) % 2 = 0
        /\ \A i \in 1..Len(chat_history) :
              chat_history[i].role = IF i % 2 = 1 THEN "User" ELSE "Assistant"

C25_Step ==
    (chat_open /\ chat_open') =>
        /\ Len(sending') > Len(sending) => chat_history' = chat_history
        /\ Len(sending') < Len(sending) =>
              \/ chat_history' = chat_history
              \/ /\ Len(chat_history') = Len(chat_history) + 2
                 /\ SubSeq(chat_history', 1, Len(chat_history)) = chat_history
                 /\ chat_history'[Len(chat_history) + 1] =
                        Turn("User", sending[Len(sending)])
                 /\ chat_history'[Len(chat_history) + 2].role = "Assistant"
        /\ (chat_display # <<>> /\ chat_display' = <<>>) => chat_history' = <<>>
        /\ (Len(sending') < Len(sending) /\ chat_history = <<>>) =>
              last_dispatch'.full_prompt =
                  <<"User", ":", " ">> \o sending[Len(sending)]
                      \o <<"\n", "Assistant", ":">>

C25_HistoryAlternates == [](C25_Alternates) /\ [][C25_Step]_vars

\* two exchanges are recorded and a third send is under way
C25_Witness ==
    /\ chat_open
    /\ Len(chat_history) = 4
    /\ sending # <<>>
    /\ last_dispatch.done

(***************************************************************************)
(* C26.  The turns of the history are bubbles of the view, in the order    *)
(* the view shows them (a reply is recorded without its outer white        *)
(* space), also while sends nest.                                          *)
(***************************************************************************)
RECURSIVE IsSubsequence(_, _)
IsSubsequence(a, b) ==
    IF a = <<>> THEN TRUE
    ELSE IF b = <<>> THEN FALSE
    ELSE IF Head(a) = Head(b) THEN IsSubsequence(Tail(a), Tail(b))
    ELSE IsSubsequence(a, Tail(b))

C26_Recorded(bubble) == Turn(bubble.role, strip(bubble.content))

C26_HistoryInViewOrder ==
    chat_open =>
        IsSubsequence(chat_history,
                      [i \in 1..Len(chat_display) |-> C26_Recorded(chat_display[i])])

(***************************************************************************)
(* C27.  In a dispatch to several models whose k-th runner invocation is   *)
(* the first to fail, the runner was invoked for the models 1..k and no    *)
(* later one, and the result is the one error of that failure: none of the *)
(* outputs of the models 1..k-1 is in it.                                  *)
(***************************************************************************)
C27_MultiModel ==
    /\ last_dispatch.done
    /\ last_dispatch.available
    /\ last_dispatch.seen = "running"
    /\ Len(last_dispatch.selection) > 1

C27_Failed(k) ==
    /\ k \in 1..Len(last_dispatch.runs)
    /\ last_dispatch.runs[k].exc # "none"
    /\ \A j \in 1..(k - 1) : last_dispatch.runs[j].exc = "none"

C27_FailureStopsDispatch ==
    C27_MultiModel =>
        \A k \in 1..Len(last_dispatch.selection) :
            C27_Failed(k) =>
                /\ Len(last_dispatch.runner_calls) = k
                /\ \A j \in 1..k :
                      last_dispatch.runner_calls[j] = last_dispatch.selection[j]
                /\ last_dispatch.kind \in {"CommandFailed", "CommandNotFound"}
                /\ last_dispatch.result \in
                       {<<"Error: LLM server command failed:", " ", "boom">>,
                        <<"Error: Docker command not found.">>}
                /\ last_dispatch.kind = "CommandFailed"
                      <=> last_dispatch.runs[k].exc = "CalledProcessError"

\* the first model answered hello, the runner failed for the second
C27_Witness ==
    /\ C27_MultiModel
    /\ C27_Failed(2)
    /\ last_dispatch.runs[1].stdout = outHello
    /\ last_dispatch.runs[2].exc = "CalledProcessError"
    /\ last_dispatch.runner_calls = ModelOrder
    /\ last_dispatch.result = <<"Error: LLM server command failed:", " ", "boom">>

(***************************************************************************)
(* C28.  A configuration action that wrote the settings file changed the   *)
(* key it is about and left every other key of the file with the value it  *)
(* had, also when its read of the file failed.                             *)
(***************************************************************************)
SettingsKeys == DOMAIN EmptyDoc

C28_Step ==
    (/\ last_config' # last_config
     /\ last_config'.done
     /\ last_config'.saved = "ok")
        => \A k \in SettingsKeys \ {last_config'.key} :
              read_settings(settings_file', TRUE)[k] = read_settings(settings_file, TRUE)[k]

C28_OtherKeysKept == [][C28_Step]_vars

(***************************************************************************)
(* C29.  As claimed: choose_docker_compose_file leaves, in memory and in   *)
(* the settings file, the path the file chooser returned, the empty path   *)
(* of a cancelled chooser included; and a start or stop issued while the   *)
(* path in memory is empty looks the named container up and runs no        *)
(* compose command.                                                        *)
(***************************************************************************)
C29_Chosen ==
    /\ last_config' # last_config
    /\ last_config'.done
    /\ last_config'.key = "docker_compose_path"

C29_Persisted ==
    /\ settings_file'.valid
    /\ settings_file'.doc.docker_compose_path = JsonStr(last_config'.file_path)

C29_DirectAfterCancel ==
    (last_container_op' # last_container_op /\ docker_compose_path = JsonStr(<<>>))
        => /\ ~last_container_op'.compose
           /\ docker_available => last_container_op'.seen # "none"

C29_ClaimedStep ==
    /\ C29_Chosen =>
          /\ docker_compose_path' = JsonStr(last_config'.file_path)
          /\ C29_Persisted
    /\ C29_DirectAfterCancel

C29_Step ==
    /\ C29_Chosen =>
          /\ docker_compose_path' = JsonStr(last_config'.file_path)
          /\ last_config'.saved = "ok" => C29_Persisted
    /\ C29_DirectAfterCancel

C30_ProbedRunning ==
    /\ last_inspect.exc = "none"
    /\ split(strip(last_inspect.stdout), "|")[1] = sTrue

C30_Step ==
    tray_message' # tray_message =>
        IF ~Modal /\ actions.send_prompt_enabled
        THEN /\ C30_ProbedRunning
             /\ chat_open'
             /\ tray_message'.text = "chat"
        ELSE /\ tray_message'.text \in {"already_open", "start_first"}
             /\ tray_message'.text = "already_open" <=> Modal
             /\ UNCHANGED <<chat_open, chat_history, chat_display, sending,
                            pull_dialog>>

C30_ClickOpensOneChat == [][C30_Step]_vars

\* a click while the chat dialog was open: the chat stays the one dialog and
\* the click only notified
C30_Witness ==
    /\ chat_open
    /\ actions.send_prompt_enabled
    /\ tray_message.text = "already_open"

====
